---- MODULE Spec2Model ----
(***************************************************************************)
(* Model of the session manager (SimulationControlService and the pause /  *)
(* resume endpoints of its router) and of the session-scoped agent cache   *)
(* (AgentService.load_agent) of the TinyTroupe API, of the focus-group     *)
(* endpoint that loads agents under a fresh session id, and of the         *)
(* transcript reconstruction of SimulationService (the structured parse of *)
(* the action stream, the parse of the rendered transcript, and the choice *)
(* between them), of the statistics computed from the extractor's output,  *)
(* and of run_simulation as a sequence of steps (begin, stimulus, rounds,  *)
(* transcript, extraction and response) with stop_simulation between them. *)
(* The engine holds one cache transaction at a time (engine_cache).        *)
(*                                                                         *)
(* Text is a sequence of one-character strings, so that trimming, suffix   *)
(* removal and pattern matching are computed character by character; "ESC" *)
(* stands for the escape character.  Values of the action stream are       *)
(* records tagged with their Python kind.                                  *)
(*                                                                         *)
(* Identifiers: uuid4 session ids and checkpoint ids are modelled as the   *)
(* smallest unused positive integer; 0 stands for None.  File paths are    *)
(* sequences of name parts: the cache file of a session is one part, and   *)
(* every "<base>_checkpoint_<name>.json" derived from it appends the part  *)
(* of the checkpoint name.  <<>> stands for the path None.  Timestamps     *)
(* (created_at, last_activity, ended_at) and free-text descriptions are    *)
(* not modelled.  The engine (tinytroupe.control, TinyPerson) and the file *)
(* system are outside the program: whether a call into them returns or     *)
(* raises is an input of the action that makes the call.                   *)
(***************************************************************************)
EXTENDS Integers, Sequences, FiniteSets, TLC

\* ------------------------------------------------------------------ bounds
MaxSessions == 2
MaxCheckpoints == 2
MaxReleases == 2
MaxHandles == 3
MaxRounds == 2
MaxSimulations == 2

\* ------------------------------------------------------------ input domains
MaxInteractions == 2
AgentNames == {"A", "B"}
WorldNames == {"W"}
\* SimulationSessionRequest shapes: an explicit cache file, a cache file named
\* after the session, and no cache file (empty session_name, no cache_file)
BeginRequests == {[session_name |-> "sim", cache_file |-> "s1.json"],
                  [session_name |-> "sim", cache_file |-> ""],
                  [session_name |-> "", cache_file |-> ""]}
CheckpointNames == {"", "cp"}
SessionIdInputs == 1..(MaxSessions + 1)
CheckpointIdInputs == 1..(MaxCheckpoints + 1)
WriteOutcomes == {"ok", "open_failed"}
AvailableAgents == {"lisa", "oscar"}
AgentIdInputs == AvailableAgents \cup {"ghost"}
SuffixInputs == {"", "s1", "s2"}

\* SimulationStatus and CheckpointStatus enum values
CREATED == "created"
RUNNING == "running"
PAUSED == "paused"
COMPLETED == "completed"
FAILED == "failed"
STOPPED == "stopped"
SAVED == "saved"
RESTORED == "restored"
TerminalStatuses == {COMPLETED, FAILED, STOPPED}

VARIABLES
    active_sessions,      \* session id -> session record
    session_checkpoints,  \* session id -> sequence of checkpoint records
    meta_files,           \* path of a "<checkpoint_file>.meta" -> its content
    control_ends,         \* session id -> control.end() calls made by end_session
    last_op,              \* the last operation: its arguments, result, engine calls
    session_cache,        \* AgentService._session_cache: session id -> agent id -> handle
    agent_objects,        \* handle (object identity) -> the TinyPerson object
    load_log,             \* what every load_agent call returned
    actions_over_time,    \* world.run(rounds, return_actions=True): the action stream
    conversation_content, \* world.pretty_current_interactions(): the rendered transcript
    rendered_blocks,      \* the agent blocks the engine rendered into the transcript
    parse_out,            \* the last function applied to the inputs and what it returned
    engine_cache,         \* the cache transaction that tinytroupe.control holds open
    active_simulations,   \* SimulationService.active_simulations: simulation id -> record
    runs,                 \* simulation id -> the run_simulation call: position and locals
    returned,             \* simulation id -> what the run_simulation call returned or raised
    raw_results           \* what extract_results_from_agent returned

transcript_vars == <<actions_over_time, conversation_content, rendered_blocks, parse_out>>

run_vars == <<active_simulations, runs, returned, raw_results>>

vars == <<active_sessions, session_checkpoints, meta_files, control_ends, last_op,
          session_cache, agent_objects, load_log, transcript_vars, engine_cache, run_vars>>

\* ----------------------------------------------------------------- helpers
\* Python values of the action stream are records tagged with their type; a
\* string is the sequence of its characters
PyNone == [kind |-> "none"]
PyInt == [kind |-> "int"]
\* a number with its value, where the code tests it
PyNumber(value) == [kind |-> "int", value |-> value]
Missing == [kind |-> "missing"]
PyStr(chars) == [kind |-> "str", chars |-> chars]
PyList(items) == [kind |-> "list", items |-> items]

\* no transcript function has been applied
NoOutput == [fn |-> "none", raised |-> FALSE, calls |-> <<>>, result |-> <<>>]

NoFile == <<>>
EmptyDict == [type |-> "dict", names |-> <<>>]
NoOp == [op |-> "init", session_id |-> 0, checkpoint_id |-> 0, result |-> "ok",
         calls |-> <<>>, out |-> 0]

Op(name, sid, cpid, result, calls, out) ==
    [op |-> name, session_id |-> sid, checkpoint_id |-> cpid, result |-> result,
     calls |-> calls, out |-> out]

SeqContains(s, x) == \E i \in 1..Len(s) : s[i] = x

\* dict[key] = value on an insertion-ordered dict: a new key goes last
DictSet(d, key) ==
    IF SeqContains(d.names, key) THEN d
    ELSE [d EXCEPT !.names = Append(d.names, key)]

\* str(uuid.uuid4()) for a new session: an id no session has
NewSessionId == Cardinality(DOMAIN active_sessions) + 1

AllCheckpoints ==
    UNION {{session_checkpoints[s][i] : i \in 1..Len(session_checkpoints[s])} :
           s \in DOMAIN session_checkpoints}

\* str(uuid.uuid4()) for a new checkpoint: an id no checkpoint has
NewCheckpointId == Cardinality(AllCheckpoints) + 1

\* cache file path chosen by begin_session
CacheFileFor(session_id, session_name, cache_file) ==
    IF cache_file # "" THEN <<[kind |-> "given", id |-> 0]>>
    ELSE IF session_name # "" THEN <<[kind |-> "session", id |-> session_id]>>
    ELSE NoFile

\* request.checkpoint_name or f"checkpoint_{checkpoint_id[:8]}"
CheckpointNameFor(checkpoint_id, checkpoint_name) ==
    IF checkpoint_name # "" THEN [kind |-> "named", id |-> 0]
    ELSE [kind |-> "checkpoint", id |-> checkpoint_id]

\* f"{os.path.splitext(cache_file)[0]}_checkpoint_{checkpoint_name}.json"
CheckpointFileFor(cache_file, name) ==
    IF cache_file # NoFile THEN Append(cache_file, name) ELSE NoFile

\* the engine's cache transaction: none, the one begun for a session, the one
\* begun by a run
NoCache == [owner |-> "none", id |-> 0]
SessionCache(session_id) == [owner |-> "session", id |-> session_id]
RunCache(simulation_id) == [owner |-> "run", id |-> simulation_id]
\* the transactions begun outside the session manager and the runs: by the
\* application's startup handler, by a population, by an intervention
AppCache == [owner |-> "app", id |-> 0]
PopulationCache == [owner |-> "population", id |-> 0]
InterventionCache == [owner |-> "intervention", id |-> 0]

\* SimulationService.__init__ and the engine before any call
NoRuns ==
    /\ engine_cache = NoCache
    /\ active_simulations = <<>>
    /\ runs = <<>>
    /\ returned = <<>>
    /\ raw_results = [kind |-> "none"]

Init ==
    /\ active_sessions = <<>>
    /\ session_checkpoints = <<>>
    /\ meta_files = <<>>
    /\ control_ends = <<>>
    /\ last_op = NoOp
    /\ session_cache = <<>>
    /\ agent_objects = <<>>
    /\ load_log = {}
    /\ actions_over_time = PyNone
    /\ conversation_content = <<>>
    /\ rendered_blocks = <<>>
    /\ parse_out = NoOutput
    /\ NoRuns

\* the control.begin call made for a cache path (None: control.begin())
BeginCall(path) == IF path # NoFile THEN "begin(file)" ELSE "begin()"

\* the value of self.active_sessions.get(session_id) for an id that is not a key
NoSession ==
    [session_id |-> 0, session_name |-> "", status |-> CREATED, cache_file |-> NoFile,
     restored_from |-> 0, agents |-> EmptyDict, worlds |-> EmptyDict,
     interaction_count |-> 0]

\* a lookup that falls back to some session when the id is not a key
LookupSessionOrAny(session_id) ==
    IF session_id \in DOMAIN active_sessions THEN active_sessions[session_id]
    ELSE IF DOMAIN active_sessions # {}
    THEN active_sessions[CHOOSE s \in DOMAIN active_sessions : TRUE]
    ELSE NoSession

\* session = self.active_sessions.get(session_id)
LookupSession(session_id) ==
    IF session_id \in DOMAIN active_sessions THEN active_sessions[session_id]
    ELSE NoSession

\* ------------------------------------------------------------ begin_session
BeginSession(session_name, cache_file, engine_ok) ==
    LET session_id == NewSessionId
        path == CacheFileFor(session_id, session_name, cache_file)
        session_data == [session_id |-> session_id,
                         session_name |-> session_name,
                         status |-> CREATED,
                         cache_file |-> path,
                         restored_from |-> 0,
                         agents |-> EmptyDict,
                         worlds |-> EmptyDict,
                         interaction_count |-> 0]
    IN /\ Cardinality(DOMAIN active_sessions) < MaxSessions
       /\ IF engine_ok
          THEN /\ active_sessions' = active_sessions @@ (session_id :> session_data)
               /\ session_checkpoints' = session_checkpoints @@ (session_id :> <<>>)
               /\ control_ends' = control_ends @@ (session_id :> 0)
               /\ engine_cache' = SessionCache(session_id)
               /\ last_op' = Op("begin_session", 0, 0, "ok", <<BeginCall(path)>>, session_id)
          ELSE /\ UNCHANGED <<active_sessions, session_checkpoints, control_ends,
                              engine_cache>>
               /\ last_op' = Op("begin_session", 0, 0, "engine_error", <<BeginCall(path)>>, 0)
       /\ UNCHANGED <<meta_files, session_cache, agent_objects, load_log,
                   transcript_vars, run_vars>>

\* -------------------------------------------------------- create_checkpoint
\* a create_checkpoint that marks the record SAVED whatever the save did
CheckpointStatusAlwaysSaved(has_file, built, write) == SAVED

\* status of the checkpoint record after the "Save checkpoint metadata" block:
\* SAVED is assigned after checkpoint_metadata was built and the file written
CheckpointStatusAfterSave(has_file, built, write) ==
    IF has_file /\ built /\ write = "ok" THEN SAVED ELSE CREATED

\* checkpoint_metadata, the content of the .meta file: session["agents"] and
\* session["worlds"] are asked for their keys(), which a list does not have
\* (AttributeError, caught by the except of the block)
MetaContent(checkpoint_id, session) ==
    IF session.agents.type # "dict" \/ session.worlds.type # "dict"
    THEN [raised |-> TRUE,
          content |-> [valid |-> FALSE, checkpoint_id |-> 0, agents_summary |-> <<>>,
                       worlds_summary |-> <<>>]]
    ELSE [raised |-> FALSE,
          content |-> [valid |-> TRUE,
                       checkpoint_id |-> checkpoint_id,
                       agents_summary |-> session.agents.names,
                       worlds_summary |-> session.worlds.names]]

\* the file system after open(f"{checkpoint_file}.meta", 'w') and json.dump; the
\* file is not opened when the content could not be built, and a failed write
\* is an open() that raised, which leaves the files as they were
WriteMeta(files, path, meta, write) ==
    IF path = NoFile \/ meta.raised \/ write # "ok" THEN files
    ELSE [p \in DOMAIN files \cup {path} |-> IF p = path THEN meta.content ELSE files[p]]

\* an assignment of a new list in place of the append
ReplaceCheckpoints(checkpoints, checkpoint_data) == <<checkpoint_data>>

\* self.session_checkpoints[session_id].append(checkpoint_data)
AppendCheckpoint(checkpoints, checkpoint_data) == Append(checkpoints, checkpoint_data)

CreateCheckpoint(session_id, checkpoint_name, engine_ok, write) ==
    /\ IF LookupSession(session_id) = NoSession
       THEN /\ last_op' = Op("create_checkpoint", session_id, 0, "not_found", <<>>, 0)
            /\ UNCHANGED <<active_sessions, session_checkpoints, meta_files, control_ends>>
       ELSE IF ~engine_ok
       THEN /\ last_op' = Op("create_checkpoint", session_id, 0, "engine_error",
                             <<"checkpoint">>, 0)
            /\ UNCHANGED <<active_sessions, session_checkpoints, meta_files, control_ends>>
       ELSE LET session == LookupSession(session_id)
                checkpoint_id == NewCheckpointId
                name == CheckpointNameFor(checkpoint_id, checkpoint_name)
                checkpoint_file == CheckpointFileFor(session.cache_file, name)
                checkpoint_data ==
                    [checkpoint_id |-> checkpoint_id,
                     checkpoint_name |-> name,
                     session_id |-> session_id,
                     status |-> CheckpointStatusAfterSave(
                                    checkpoint_file # NoFile,
                                    ~MetaContent(checkpoint_id, session).raised, write),
                     file_path |-> checkpoint_file,
                     metadata |-> [agents_count |-> Len(session.agents.names),
                                   worlds_count |-> Len(session.worlds.names),
                                   interactions_count |-> session.interaction_count]]
            IN /\ Cardinality(AllCheckpoints) < MaxCheckpoints
               /\ meta_files' = WriteMeta(meta_files, checkpoint_file,
                                          MetaContent(checkpoint_id, session), write)
               /\ session_checkpoints' =
                      [session_checkpoints EXCEPT
                          ![session_id] = AppendCheckpoint(@, checkpoint_data)]
               /\ last_op' = Op("create_checkpoint", session_id, checkpoint_id, "ok",
                                <<"checkpoint">>, checkpoint_id)
               /\ UNCHANGED <<active_sessions, control_ends>>
    /\ UNCHANGED <<session_cache, agent_objects, load_log,
                   transcript_vars, engine_cache, run_vars>>

\* -------------------------------------------------- restore_from_checkpoint
NoCheckpoint ==
    [checkpoint_id |-> 0, checkpoint_name |-> [kind |-> "none", id |-> 0], session_id |-> 0,
     status |-> CREATED, file_path |-> NoFile,
     metadata |-> [agents_count |-> 0, worlds_count |-> 0, interactions_count |-> 0]]

\* a search that keeps the checkpoint it looked at last when none matches
FindCheckpointOrLast(checkpoint_id) ==
    IF \E cp \in AllCheckpoints : cp.checkpoint_id = checkpoint_id
    THEN CHOOSE cp \in AllCheckpoints : cp.checkpoint_id = checkpoint_id
    ELSE IF AllCheckpoints # {} THEN CHOOSE cp \in AllCheckpoints : TRUE
    ELSE NoCheckpoint

\* the "Find the checkpoint" loop over self.session_checkpoints
FindCheckpoint(checkpoint_id) ==
    IF \E cp \in AllCheckpoints : cp.checkpoint_id = checkpoint_id
    THEN CHOOSE cp \in AllCheckpoints : cp.checkpoint_id = checkpoint_id
    ELSE NoCheckpoint

EmptyMeta ==
    [valid |-> FALSE, checkpoint_id |-> 0, agents_summary |-> <<>>, worlds_summary |-> <<>>]

\* the "Load checkpoint metadata if available" block: {} unless the file is read
LoadMeta(checkpoint_file, read_ok) ==
    IF checkpoint_file # NoFile /\ checkpoint_file \in DOMAIN meta_files
    THEN IF read_ok /\ meta_files[checkpoint_file].valid
         THEN meta_files[checkpoint_file] ELSE EmptyMeta
    ELSE EmptyMeta

\* checkpoint_metadata.get("session_snapshot", {}).get("agents_summary", {})
RestoredAgents(checkpoint_metadata) ==
    IF checkpoint_metadata.valid
    THEN [type |-> "list", names |-> checkpoint_metadata.agents_summary]
    ELSE EmptyDict

\* a restored session record that does not say where it comes from
RestoredSessionDataNoOrigin(new_session_id, checkpoint, checkpoint_metadata) ==
    [session_id |-> new_session_id,
     session_name |-> "Restored",
     status |-> RUNNING,
     cache_file |-> checkpoint.file_path,
     restored_from |-> 0,
     agents |-> RestoredAgents(checkpoint_metadata),
     worlds |-> EmptyDict,
     interaction_count |-> checkpoint.metadata.interactions_count]

\* the session record built for create_new_session
RestoredSessionData(new_session_id, checkpoint, checkpoint_metadata) ==
    [session_id |-> new_session_id,
     session_name |-> "Restored",
     status |-> RUNNING,
     cache_file |-> checkpoint.file_path,
     restored_from |-> checkpoint.checkpoint_id,
     agents |-> RestoredAgents(checkpoint_metadata),
     worlds |-> EmptyDict,
     interaction_count |-> checkpoint.metadata.interactions_count]

RestoreFromCheckpoint(session_id, checkpoint_id, create_new_session, file_exists, read_ok, engine_ok) ==
    LET checkpoint == FindCheckpoint(checkpoint_id)
        checkpoint_metadata == LoadMeta(checkpoint.file_path, read_ok)
        new_session_id == NewSessionId
        begin_call == IF checkpoint.file_path # NoFile /\ file_exists
                      THEN "begin(file)" ELSE "begin()"
        name == IF create_new_session THEN "restore_new" ELSE "restore"
    IN /\ create_new_session => Cardinality(DOMAIN active_sessions) < MaxSessions
       /\ IF checkpoint = NoCheckpoint
          THEN /\ last_op' = Op(name, session_id, checkpoint_id, "not_found", <<>>, 0)
               /\ UNCHANGED <<active_sessions, session_checkpoints, control_ends,
                              engine_cache>>
          ELSE IF create_new_session
          THEN IF engine_ok
               THEN /\ active_sessions' = active_sessions @@
                          (new_session_id :>
                              RestoredSessionData(new_session_id, checkpoint,
                                                  checkpoint_metadata))
                    /\ session_checkpoints' = session_checkpoints @@ (new_session_id :> <<>>)
                    /\ control_ends' = control_ends @@ (new_session_id :> 0)
                    /\ engine_cache' = SessionCache(new_session_id)
                    /\ last_op' = Op(name, session_id, checkpoint_id, "ok", <<begin_call>>,
                                     new_session_id)
               ELSE /\ last_op' = Op(name, session_id, checkpoint_id, "engine_error",
                                     <<begin_call>>, 0)
                    /\ UNCHANGED <<active_sessions, session_checkpoints, control_ends,
                                   engine_cache>>
          ELSE IF LookupSession(session_id) = NoSession
          THEN /\ last_op' = Op(name, session_id, checkpoint_id, "not_found", <<>>, 0)
               /\ UNCHANGED <<active_sessions, session_checkpoints, control_ends,
                              engine_cache>>
          ELSE /\ active_sessions' = [active_sessions EXCEPT ![session_id].status = RUNNING]
               /\ last_op' = Op(name, session_id, checkpoint_id, "ok", <<>>, session_id)
               /\ UNCHANGED <<session_checkpoints, control_ends, engine_cache>>
       /\ UNCHANGED <<meta_files, session_cache, agent_objects, load_log,
                   transcript_vars, run_vars>>

\* -------------------------------------------------------------- end_session
EndSession(session_id, engine_ok) ==
    /\ session_id \in DOMAIN control_ends => control_ends[session_id] < MaxReleases
    /\ IF LookupSession(session_id) = NoSession
       THEN /\ last_op' = Op("end_session", session_id, 0, "not_found", <<>>, 0)
            /\ UNCHANGED <<active_sessions, control_ends, engine_cache>>
       ELSE IF engine_ok
       THEN /\ active_sessions' = [active_sessions EXCEPT ![session_id].status = COMPLETED]
            /\ control_ends' = [control_ends EXCEPT ![session_id] = @ + 1]
            /\ engine_cache' = NoCache
            /\ last_op' = Op("end_session", session_id, 0, "ok", <<"end">>, session_id)
       ELSE /\ last_op' = Op("end_session", session_id, 0, "engine_error", <<"end">>, 0)
            /\ UNCHANGED <<active_sessions, control_ends, engine_cache>>
    /\ UNCHANGED <<session_checkpoints, meta_files, session_cache, agent_objects, load_log,
                   transcript_vars, run_vars>>

\* ---------------------------------------- pause_session / resume_session
SetStatus(name, session_id, status) ==
    /\ IF session_id \notin DOMAIN active_sessions
       THEN /\ last_op' = Op(name, session_id, 0, "not_found", <<>>, 0)
            /\ UNCHANGED active_sessions
       ELSE /\ active_sessions' = [active_sessions EXCEPT ![session_id].status = status]
            /\ last_op' = Op(name, session_id, 0, "ok", <<>>, session_id)
    /\ UNCHANGED <<session_checkpoints, meta_files, control_ends,
                   session_cache, agent_objects, load_log,
                   transcript_vars, engine_cache, run_vars>>

PauseSession(session_id) == SetStatus("pause_session", session_id, PAUSED)

ResumeSession(session_id) == SetStatus("resume_session", session_id, RUNNING)

\* ------------------------------------------ register_agent / register_world
RegisterAgent(session_id, agent_name) ==
    /\ IF session_id \notin DOMAIN active_sessions
       THEN /\ last_op' = Op("register_agent", session_id, 0, "ignored", <<>>, 0)
            /\ UNCHANGED active_sessions
       ELSE IF active_sessions[session_id].agents.type # "dict"
       THEN /\ last_op' = Op("register_agent", session_id, 0, "type_error", <<>>, 0)
            /\ UNCHANGED active_sessions
       ELSE /\ active_sessions' =
                  [active_sessions EXCEPT ![session_id].agents = DictSet(@, agent_name)]
            /\ last_op' = Op("register_agent", session_id, 0, "ok", <<>>, session_id)
    /\ UNCHANGED <<session_checkpoints, meta_files, control_ends,
                   session_cache, agent_objects, load_log,
                   transcript_vars, engine_cache, run_vars>>

RegisterWorld(session_id, world_name) ==
    /\ IF session_id \notin DOMAIN active_sessions
       THEN /\ last_op' = Op("register_world", session_id, 0, "ignored", <<>>, 0)
            /\ UNCHANGED active_sessions
       ELSE /\ active_sessions' =
                  [active_sessions EXCEPT ![session_id].worlds = DictSet(@, world_name)]
            /\ last_op' = Op("register_world", session_id, 0, "ok", <<>>, session_id)
    /\ UNCHANGED <<session_checkpoints, meta_files, control_ends,
                   session_cache, agent_objects, load_log,
                   transcript_vars, engine_cache, run_vars>>

\* -------------------------------------------- increment_interaction_count
\* increment_interaction_count(session_id, count): nothing for an unknown id,
\* otherwise interaction_count += count (last_activity is not modelled)
IncrementInteractionCount(session_id, count) ==
    /\ IF session_id \notin DOMAIN active_sessions
       THEN /\ last_op' = Op("increment_interaction_count", session_id, 0, "ignored", <<>>, 0)
            /\ UNCHANGED active_sessions
       ELSE /\ active_sessions[session_id].interaction_count + count <= MaxInteractions
            /\ active_sessions' =
                  [active_sessions EXCEPT ![session_id].interaction_count = @ + count]
            /\ last_op' = Op("increment_interaction_count", session_id, 0, "ok", <<>>,
                             session_id)
    /\ UNCHANGED <<session_checkpoints, meta_files, control_ends,
                   session_cache, agent_objects, load_log,
                   transcript_vars, engine_cache, run_vars>>

\* ------------------------------------- other callers of tinytroupe.control
\* what can go wrong in a function that begins a cache transaction, works and
\* ends it
ScopedOutcomes == {"ok", "begin raises", "work raises", "end raises"}

\* control.begin(file) ... control.end() of a function without a finally: the
\* transaction is left open when the work or control.end() raises
ScopedTransaction(name, cache, outcome) ==
    /\ engine_cache' = IF outcome = "begin raises" THEN engine_cache
                       ELSE IF outcome = "ok" THEN NoCache
                       ELSE cache
    /\ last_op' = IF outcome = "begin raises"
                  THEN Op(name, 0, 0, "engine_error", <<"begin(file)">>, 0)
                  ELSE IF outcome = "work raises"
                  THEN Op(name, 0, 0, "error", <<"begin(file)">>, 0)
                  ELSE IF outcome = "end raises"
                  THEN Op(name, 0, 0, "engine_error", <<"begin(file)", "end">>, 0)
                  ELSE Op(name, 0, 0, "ok", <<"begin(file)", "end">>, 0)

\* PopulationService.bulk_generate_population(request): with a cache_key the
\* generation runs between control.begin(f"population_{id}.json") and
\* control.end(); without one the engine's transaction is not touched. The
\* populations themselves are not modelled.
BulkGeneratePopulation(cache_key, outcome) ==
    /\ IF cache_key
       THEN ScopedTransaction("bulk_generate_population", PopulationCache, outcome)
       ELSE /\ outcome \in {"ok", "work raises"}
            /\ engine_cache' = engine_cache
            /\ last_op' = Op("bulk_generate_population", 0, 0,
                             IF outcome = "ok" THEN "ok" ELSE "error", <<>>, 0)
    /\ UNCHANGED <<active_sessions, session_checkpoints, meta_files, control_ends,
                   session_cache, agent_objects, load_log, transcript_vars, run_vars>>

\* InterventionService.execute_intervention(request): an unknown intervention or
\* population raises before any engine call; otherwise the variants run between
\* control.begin(f"intervention_{id}.json") and control.end(). The awaited
\* coroutines never suspend, so the call is one step.
ExecuteIntervention(found, outcome) ==
    /\ IF found
       THEN ScopedTransaction("execute_intervention", InterventionCache, outcome)
       ELSE /\ outcome = "ok"
            /\ engine_cache' = engine_cache
            /\ last_op' = Op("execute_intervention", 0, 0, "not_found", <<>>, 0)
    /\ UNCHANGED <<active_sessions, session_checkpoints, meta_files, control_ends,
                   session_cache, agent_objects, load_log, transcript_vars, run_vars>>

\* main.startup_event: control.begin()
StartupEvent(engine_ok) ==
    /\ engine_cache' = IF engine_ok THEN AppCache ELSE engine_cache
    /\ last_op' = Op("startup_event", 0, 0, IF engine_ok THEN "ok" ELSE "engine_error",
                     <<"begin()">>, 0)
    /\ UNCHANGED <<active_sessions, session_checkpoints, meta_files, control_ends,
                   session_cache, agent_objects, load_log, transcript_vars, run_vars>>

\* main.shutdown_event: control.end()
ShutdownEvent(engine_ok) ==
    /\ engine_cache' = IF engine_ok THEN NoCache ELSE engine_cache
    /\ last_op' = Op("shutdown_event", 0, 0, IF engine_ok THEN "ok" ELSE "engine_error",
                     <<"end">>, 0)
    /\ UNCHANGED <<active_sessions, session_checkpoints, meta_files, control_ends,
                   session_cache, agent_objects, load_log, transcript_vars, run_vars>>

\* ------------------------------------------------ AgentRegistry.load_agent
\* agent.name as TinyPerson.load_specification leaves it: the name written in
\* the specification file of the agent; the first ends like a session suffix
PersonName(agent_id) ==
    IF agent_id = "lisa" THEN <<"L", "_", "d", "e", "a", "d", "b", "e", "e", "f">>
    ELSE IF agent_id = "oscar" THEN <<"O", "_", "P">>
    ELSE <<"G">>

\* the characters of a session id, str(uuid.uuid4())[:8]; none for no suffix
SuffixText(unique_suffix) ==
    IF unique_suffix = "" THEN <<>>
    ELSE IF unique_suffix = "s1" THEN <<"0", "a", "1", "b", "2", "c", "3", "d">>
    ELSE <<"d", "e", "a", "d", "b", "e", "e", "f">>

\* if unique_suffix: agent.name = f"{agent.name}_{unique_suffix}"
DisplayName(name, suffix) == IF suffix = <<>> THEN name ELSE name \o <<"_">> \o suffix

\* the TinyPerson built by the registry: the name gets the suffix, and the
\* semantic memory is replaced by an empty one on request
RegistryLoadAgent(agent_id, unique_suffix, disable_semantic_memory) ==
    [name |-> DisplayName(PersonName(agent_id), SuffixText(unique_suffix)),
     original_id |-> "",
     semantic_memory |-> IF disable_semantic_memory THEN "empty" ELSE "loaded"]

\* ------------------------------------------------- AgentService.load_agent
\* a cache keyed by the agent id alone
CachedAgentOfAnySession(cache, session_id, agent_id) ==
    IF \E s \in DOMAIN cache : agent_id \in DOMAIN cache[s]
    THEN cache[CHOOSE s \in DOMAIN cache : agent_id \in DOMAIN cache[s]][agent_id]
    ELSE 0

\* the cached handle of (session_id, agent_id), 0 if there is none
CachedAgent(cache, session_id, agent_id) ==
    IF session_id \in DOMAIN cache /\ agent_id \in DOMAIN cache[session_id]
    THEN cache[session_id][agent_id]
    ELSE 0

\* self._session_cache after "if session_id not in self._session_cache"
WithSession(cache, session_id) ==
    IF session_id \in DOMAIN cache THEN cache ELSE cache @@ (session_id :> <<>>)

Returned(session_id, agent_id, handle, cached) ==
    [session_id |-> session_id, agent_id |-> agent_id, handle |-> handle, cached |-> cached]

\* a load_agent that uses the cache for an empty session id as well
LoadAgentCachingAll(agent_id, unique_suffix, disable_semantic_memory, load_ok) ==
    LET handle == Len(agent_objects) + 1
        loaded == agent_id \in AvailableAgents /\ load_ok
        agent == RegistryLoadAgent(agent_id, unique_suffix, disable_semantic_memory)
        hit == CachedAgent(session_cache, unique_suffix, agent_id)
    IN /\ IF hit # 0
          THEN /\ load_log' = load_log \cup {Returned(unique_suffix, agent_id, hit, TRUE)}
               /\ UNCHANGED <<session_cache, agent_objects>>
          ELSE /\ Len(agent_objects) < MaxHandles
               /\ IF loaded
                  THEN /\ agent_objects' =
                              Append(agent_objects, [agent EXCEPT !.original_id = agent_id])
                       /\ session_cache' =
                              [WithSession(session_cache, unique_suffix)
                                  EXCEPT ![unique_suffix] = @ @@ (agent_id :> handle)]
                       /\ load_log' = load_log \cup
                              {Returned(unique_suffix, agent_id, handle, FALSE)}
                  ELSE /\ session_cache' = WithSession(session_cache, unique_suffix)
                       /\ UNCHANGED <<agent_objects, load_log>>
       /\ UNCHANGED <<active_sessions, session_checkpoints, meta_files, control_ends,
                      last_op, transcript_vars, engine_cache, run_vars>>

LoadAgent(agent_id, unique_suffix, disable_semantic_memory, load_ok) ==
    LET handle == Len(agent_objects) + 1
        loaded == agent_id \in AvailableAgents /\ load_ok
        agent == RegistryLoadAgent(agent_id, unique_suffix, disable_semantic_memory)
        hit == CachedAgent(session_cache, unique_suffix, agent_id)
    IN /\ IF unique_suffix = ""
          THEN /\ Len(agent_objects) < MaxHandles
               /\ IF loaded
                  THEN /\ agent_objects' = Append(agent_objects, agent)
                       /\ load_log' = load_log \cup
                              {Returned(unique_suffix, agent_id, handle, FALSE)}
                  ELSE UNCHANGED <<agent_objects, load_log>>
               /\ UNCHANGED session_cache
          ELSE IF hit # 0
          THEN /\ load_log' = load_log \cup {Returned(unique_suffix, agent_id, hit, TRUE)}
               /\ UNCHANGED <<session_cache, agent_objects>>
          ELSE /\ Len(agent_objects) < MaxHandles
               /\ IF loaded
                  THEN /\ agent_objects' =
                              Append(agent_objects, [agent EXCEPT !.original_id = agent_id])
                       /\ session_cache' =
                              [WithSession(session_cache, unique_suffix)
                                  EXCEPT ![unique_suffix] = @ @@ (agent_id :> handle)]
                       /\ load_log' = load_log \cup
                              {Returned(unique_suffix, agent_id, handle, FALSE)}
                  ELSE /\ session_cache' = WithSession(session_cache, unique_suffix)
                       /\ UNCHANGED <<agent_objects, load_log>>
       /\ UNCHANGED <<active_sessions, session_checkpoints, meta_files, control_ends,
                      last_op, transcript_vars, engine_cache, run_vars>>

\* ---------------------------------------- AgentService.clear_session_cache
\* clear_session_cache(session_id): del self._session_cache[session_id] if the
\* session has an entry; the objects handed out earlier stay with their holders
ClearSessionCache(session_id) ==
    /\ session_cache' =
           [u \in DOMAIN session_cache \ {session_id} |-> session_cache[u]]
    /\ UNCHANGED <<active_sessions, session_checkpoints, meta_files, control_ends,
                   last_op, agent_objects, load_log, transcript_vars, engine_cache,
                   run_vars>>

\* ---------------------------------- AgentService.create_persona_from_agent
\* the names a persona can be given: none, and "Zed"
PersonaNames == {<<>>, <<"Z", "e", "d">>}

\* create_persona_from_agent(agent_name, new_agent_name): a new object from the
\* registry, without suffix and outside the session cache, renamed when a new
\* name is given; the registry's ValueError is not caught and nothing is built
CreatePersonaFromAgent(agent_name, new_agent_name, load_ok) ==
    LET agent == RegistryLoadAgent(agent_name, "", FALSE)
    IN /\ Len(agent_objects) < MaxHandles
       /\ agent_objects' =
              IF agent_name \in AvailableAgents /\ load_ok
              THEN Append(agent_objects,
                          IF new_agent_name # <<>>
                          THEN [agent EXCEPT !.name = new_agent_name] ELSE agent)
              ELSE agent_objects
       /\ UNCHANGED <<active_sessions, session_checkpoints, meta_files, control_ends,
                      last_op, session_cache, load_log, transcript_vars, engine_cache,
                      run_vars>>

\* --------------------------------------------------------- run_focus_group
\* request.participants.specifications: the agent names of a request
ParticipantInputs ==
    {<<>>} \cup {<<a>> : a \in AgentIdInputs}
           \cup {<<a, b>> : a \in AgentIdInputs, b \in AgentIdInputs}

\* str(uuid.uuid4())[:8] of the endpoints: never empty
RunSessionIds == SuffixInputs \ {""}

\* the loop continuing with the names that are left after a load_agent call
\* that raised
RECURSIVE LoadAgentsSkippingFailures(_, _, _, _, _)
LoadAgentsSkippingFailures(specifications, session_id, disable_semantic, load_ok, st) ==
    IF specifications = <<>> THEN st
    ELSE LET agent_id == Head(specifications)
             handle == Len(st.objects) + 1
             agent == RegistryLoadAgent(agent_id, session_id, disable_semantic)
         IN IF agent_id \in AvailableAgents /\ load_ok
            THEN LoadAgentsSkippingFailures(
                     Tail(specifications), session_id, disable_semantic, load_ok,
                     [cache |-> [WithSession(st.cache, session_id)
                                    EXCEPT ![session_id] = @ @@ (agent_id :> handle)],
                      objects |-> Append(st.objects, [agent EXCEPT !.original_id = agent_id]),
                      log |-> st.log \cup {Returned(session_id, agent_id, handle, FALSE)},
                      agents |-> Append(st.agents, handle),
                      calls |-> Append(st.calls, "load_agent"),
                      raised |-> FALSE])
            ELSE LoadAgentsSkippingFailures(
                     Tail(specifications), session_id, disable_semantic, load_ok,
                     [st EXCEPT !.cache = WithSession(st.cache, session_id),
                                !.calls = Append(@, "load_agent raises")])

\* the "for agent_spec in request.participants.specifications" loop: load_agent
\* on each name with unique_suffix=session_id; the first load that raises ends it
RECURSIVE LoadAgents(_, _, _, _, _)
LoadAgents(specifications, session_id, disable_semantic, load_ok, st) ==
    IF specifications = <<>> THEN st
    ELSE LET agent_id == Head(specifications)
             hit == CachedAgent(st.cache, session_id, agent_id)
             handle == Len(st.objects) + 1
             agent == RegistryLoadAgent(agent_id, session_id, disable_semantic)
         IN IF hit # 0
            THEN LoadAgents(Tail(specifications), session_id, disable_semantic, load_ok,
                            [st EXCEPT !.log = @ \cup {Returned(session_id, agent_id, hit, TRUE)},
                                       !.agents = Append(@, hit),
                                       !.calls = Append(@, "load_agent")])
            ELSE IF agent_id \in AvailableAgents /\ load_ok
            THEN LoadAgents(Tail(specifications), session_id, disable_semantic, load_ok,
                            [cache |-> [WithSession(st.cache, session_id)
                                           EXCEPT ![session_id] = @ @@ (agent_id :> handle)],
                             objects |-> Append(st.objects,
                                                [agent EXCEPT !.original_id = agent_id]),
                             log |-> st.log \cup
                                        {Returned(session_id, agent_id, handle, FALSE)},
                             agents |-> Append(st.agents, handle),
                             calls |-> Append(st.calls, "load_agent"),
                             raised |-> FALSE])
            ELSE [st EXCEPT !.cache = WithSession(st.cache, session_id),
                            !.calls = Append(@, "load_agent raises"),
                            !.raised = TRUE]

\* ------------------------------------------------ transcript reconstruction
Whitespace == {" ", "\n", "\t"}
Digits == {"0", "1", "2", "3", "4", "5", "6", "7", "8", "9"}
HexDigits == Digits \cup {"a", "b", "c", "d", "e", "f"}
UpperLetters == {"A", "B", "C", "D", "E", "F", "G", "H", "I", "J", "K", "L", "M", "N",
                 "O", "P", "Q", "R", "S", "T", "U", "V", "W", "X", "Y", "Z"}
LowerLetters == {"a", "b", "c", "d", "e", "f", "g", "h", "i", "j", "k", "l", "m", "n",
                 "o", "p", "q", "r", "s", "t", "u", "v", "w", "x", "y", "z"}
Letters == UpperLetters \cup LowerLetters

\* str.strip()
RECURSIVE LStrip(_)
LStrip(s) == IF s # <<>> /\ Head(s) \in Whitespace THEN LStrip(Tail(s)) ELSE s

RECURSIVE RStrip(_)
RStrip(s) ==
    IF s # <<>> /\ s[Len(s)] \in Whitespace THEN RStrip(SubSeq(s, 1, Len(s) - 1)) ELSE s

Strip(s) == RStrip(LStrip(s))

\* _[a-f0-9]{8} matches at position i of s
IsSuffixAt(s, i) ==
    /\ i >= 1 /\ i + 8 <= Len(s)
    /\ s[i] = "_"
    /\ \A k \in 1..8 : s[i + k] \in HexDigits

\* a name cut at its first underscore
CleanAgentNameAtUnderscore(agent_name) ==
    IF \E i \in 1..Len(agent_name) : agent_name[i] = "_"
    THEN SubSeq(agent_name, 1,
                (CHOOSE i \in 1..Len(agent_name) :
                     /\ agent_name[i] = "_"
                     /\ \A j \in 1..(i - 1) : agent_name[j] # "_") - 1)
    ELSE agent_name

\* re.sub(r'_[a-f0-9]{8}$', '', agent_name); $ also matches before a last newline
CleanAgentName(agent_name) ==
    LET n == Len(agent_name)
    IN IF IsSuffixAt(agent_name, n - 8) THEN SubSeq(agent_name, 1, n - 9)
       ELSE IF n >= 1 /\ agent_name[n] = "\n" /\ IsSuffixAt(agent_name, n - 9)
       THEN Append(SubSeq(agent_name, 1, n - 10), "\n")
       ELSE agent_name

\* the threshold 10 of "if len(content) > 10"
MinContentLength == 10

\* a threshold that every content passes
LongEnoughAlways(content) == TRUE

\* a threshold one character higher
LongEnoughAboveNext(content) == Len(content) > MinContentLength + 1

\* if len(content) > 10:  # Only meaningful content
LongEnough(content) == Len(content) > MinContentLength

\* the dict appended to the interactions; the timestamp is not modelled
InteractionRecord(round, agent, content) ==
    [round |-> round, agent |-> agent, content |-> content,
     type |-> "agent_contribution", action_type |-> "TALK"]

TALK == <<"T", "A", "L", "K">>

NoRecords == [raised |-> FALSE, records |-> <<>>]
Raised == [raised |-> TRUE, records |-> <<>>]

\* then(a, b): b's records after a's, unless one of them raised
Then(a, b) ==
    IF a.raised \/ b.raised THEN Raised
    ELSE [raised |-> FALSE, records |-> a.records \o b.records]

\* the body of "for action_data in agent_actions": nothing, one record, or the
\* AttributeError of .strip() on a content that is not a string
TalkOfAction(round_number, agent_name, action_data) ==
    IF action_data.kind # "dict" THEN NoRecords
    ELSE IF action_data.action.kind = "missing" THEN NoRecords
    ELSE LET action == action_data.action
         IN IF action.kind # "dict" THEN NoRecords
            ELSE IF ~(action.type.kind = "str" /\ action.type.chars = TALK) THEN NoRecords
            ELSE IF action.content.kind = "missing" THEN NoRecords
            ELSE IF action.content.kind # "str" THEN Raised
            ELSE LET content == Strip(action.content.chars)
                 IN IF LongEnough(content)
                    THEN [raised |-> FALSE,
                          records |-> <<InteractionRecord(round_number,
                                                          CleanAgentName(agent_name),
                                                          content)>>]
                    ELSE NoRecords

\* a loop that passes over an entry equal to the one before it
RECURSIVE TalksOfAgentOnce(_, _, _)
TalksOfAgentOnce(round_number, agent_name, agent_actions) ==
    IF agent_actions = <<>> THEN NoRecords
    ELSE LET first == TalkOfAction(round_number, agent_name, Head(agent_actions))
             rest == IF Len(agent_actions) >= 2 /\ agent_actions[2] = agent_actions[1]
                     THEN Tail(Tail(agent_actions))
                     ELSE Tail(agent_actions)
         IN IF first.raised THEN Raised
            ELSE Then(first, TalksOfAgentOnce(round_number, agent_name, rest))

\* for action_data in agent_actions (a raise ends the loop)
RECURSIVE TalksOfAgent(_, _, _)
TalksOfAgent(round_number, agent_name, agent_actions) ==
    IF agent_actions = <<>> THEN NoRecords
    ELSE LET first == TalkOfAction(round_number, agent_name, Head(agent_actions))
         IN IF first.raised THEN Raised
            ELSE Then(first, TalksOfAgent(round_number, agent_name, Tail(agent_actions)))

\* a round whose agents are read last to first
RECURSIVE TalksOfRoundReversed(_, _)
TalksOfRoundReversed(round_number, items) ==
    IF items = <<>> THEN NoRecords
    ELSE LET agent_actions == Head(items).value
             first == IF agent_actions.kind = "list"
                      THEN TalksOfAgent(round_number, Head(items).key, agent_actions.items)
                      ELSE NoRecords
         IN IF first.raised THEN Raised
            ELSE Then(TalksOfRoundReversed(round_number, Tail(items)), first)

\* for agent_name, agent_actions in round_data.items(): round_talks
RECURSIVE TalksOfRound(_, _)
TalksOfRound(round_number, items) ==
    IF items = <<>> THEN NoRecords
    ELSE LET agent_actions == Head(items).value
             first == IF agent_actions.kind = "list"
                      THEN TalksOfAgent(round_number, Head(items).key, agent_actions.items)
                      ELSE NoRecords
         IN IF first.raised THEN Raised
            ELSE Then(first, TalksOfRound(round_number, Tail(items)))

\* for round_number, round_data in enumerate(actions_over_time, 1), from the
\* entry number round_number on
RECURSIVE ParseRounds(_, _)
ParseRounds(rounds, round_number) ==
    IF round_number > Len(rounds) THEN NoRecords
    ELSE LET round_data == rounds[round_number]
             first == IF round_data.kind = "dict"
                      THEN TalksOfRound(round_number, round_data.items)
                      ELSE NoRecords
         IN IF first.raised THEN Raised
            ELSE Then(first, ParseRounds(rounds, round_number + 1))

\* _parse_actions_chronologically(actions_over_time)
ParseActionsChronologically(stream) == ParseRounds(stream.items, 1)

\* ------------------------------------ _parse_tinytroupe_formatted_output
\* the character \x1B
Esc == "ESC"

\* the character classes [@-Z\\-_], [0-?], [ -/] and [@-~] of ansi_escape, without
\* the backslash, the quotes and the backquote, which no input of the model has
AnsiSingle == {"@"} \cup UpperLetters \cup {"]", "^", "_"}
AnsiParams == Digits \cup {":", ";", "<", "=", ">", "?"}
AnsiIntermediates == {" ", "!", "#", "$", "%", "&", "(", ")", "*", "+", ",", "-", ".", "/"}
AnsiFinals ==
    {"@"} \cup UpperLetters \cup {"[", "]", "^", "_"} \cup LowerLetters
          \cup {"{", "|", "}", "~"}

\* the first index from i on whose character is not in class (Len(s) + 1 if none)
RECURSIVE SkipWhile(_, _, _)
SkipWhile(s, i, class) ==
    IF i <= Len(s) /\ s[i] \in class THEN SkipWhile(s, i + 1, class) ELSE i

\* the first index from i on whose character is c (Len(s) + 1 if none)
RECURSIVE SkipTo(_, _, _)
SkipTo(s, i, c) == IF i <= Len(s) /\ s[i] # c THEN SkipTo(s, i + 1, c) ELSE i

StartsWith(s, i, w) == i + Len(w) - 1 <= Len(s) /\ SubSeq(s, i, i + Len(w) - 1) = w

\* the last index of a match of ansi_escape that starts at i, 0 if there is none
AnsiEnd(s, i) ==
    IF s[i] # Esc \/ i = Len(s) THEN 0
    ELSE IF s[i + 1] \in AnsiSingle THEN i + 1
    ELSE IF s[i + 1] = "["
    THEN LET k == SkipWhile(s, SkipWhile(s, i + 2, AnsiParams), AnsiIntermediates)
         IN IF k <= Len(s) /\ s[k] \in AnsiFinals THEN k ELSE 0
    ELSE 0

\* the smallest member of a set of indices, otherwise when the set is empty
First(indices, otherwise) ==
    IF indices = {} THEN otherwise ELSE CHOOSE n \in indices : \A m \in indices : n <= m

\* ansi_escape.sub('', conversation_content), from index i on: the text up to the
\* leftmost match is kept, the match is dropped, the scan resumes after it
RECURSIVE StripAnsi(_, _)
StripAnsi(s, i) ==
    LET n == First({k \in i..Len(s) : AnsiEnd(s, k) > 0}, Len(s) + 1)
    IN IF n > Len(s) THEN SubSeq(s, i, Len(s))
       ELSE SubSeq(s, i, n - 1) \o StripAnsi(s, AnsiEnd(s, n) + 1)

ActionTags == {TALK, <<"D", "O", "N", "E">>, <<"T", "H", "I", "N", "K">>,
               <<"L", "I", "S", "T", "E", "N">>}

\* the last index of a match of style_markup that starts at i, 0 if there is none
StyleEnd(s, i) ==
    IF s[i] # "[" THEN 0
    ELSE IF \E tag \in ActionTags : StartsWith(s, i, <<"[">> \o tag \o <<"]">>) THEN 0
    ELSE LET k == SkipTo(s, i + 1, "]") IN IF k <= Len(s) THEN k ELSE 0

\* style_markup.sub('', clean_content), from index i on
RECURSIVE StripStyle(_, _)
StripStyle(s, i) ==
    LET n == First({k \in i..Len(s) : StyleEnd(s, k) > 0}, Len(s) + 1)
    IN IF n > Len(s) THEN SubSeq(s, i, Len(s))
       ELSE SubSeq(s, i, n - 1) \o StripStyle(s, StyleEnd(s, n) + 1)

\* the class [A-Za-z\s] of the agent name group
NameClass == Letters \cup Whitespace

\* the last newline of s[from..to], 0 if there is none
RECURSIVE LastNewline(_, _, _)
LastNewline(s, from, to) ==
    IF to < from THEN 0
    ELSE IF s[to] = "\n" THEN to
    ELSE LastNewline(s, from, to - 1)

\* (?:_[a-f0-9]{8})?\s+acts:\s*\[TALK\]\s*\n matched from index j on and followed
\* by the "\s*>" of a first continuation line: the index where the content group
\* starts (after the last newline that follows the tag), 0 if there is no match
HeaderAt(s, j) ==
    LET j1 == IF IsSuffixAt(s, j) THEN j + 9 ELSE j
        a == SkipWhile(s, j1, Whitespace)
        b == SkipWhile(s, a + 5, Whitespace)
        c == SkipWhile(s, b + 6, Whitespace)
        nl == LastNewline(s, b + 6, c - 1)
    IN IF /\ a > j1
          /\ StartsWith(s, a, <<"a", "c", "t", "s", ":">>)
          /\ StartsWith(s, b, <<"[">> \o TALK \o <<"]">>)
          /\ nl > 0
          /\ c <= Len(s)
          /\ s[c] = ">"
       THEN nl + 1
       ELSE 0

\* the last index of the greedy (?:\s*>\s*[^\n]*\n?)+ tried from index p on (p - 1
\* if no continuation line starts there)
RECURSIVE GroupEnd(_, _)
GroupEnd(s, p) ==
    LET q == SkipWhile(s, p, Whitespace)
    IN IF q <= Len(s) /\ s[q] = ">"
       THEN LET e == SkipTo(s, SkipWhile(s, q + 1, Whitespace), "\n")
            IN IF e <= Len(s) THEN GroupEnd(s, e + 1) ELSE Len(s)
       ELSE p - 1

\* the lazy ([A-Za-z\s]+?): the first index j after a name that started before j
\* at which the header matches, 0 if the name class ends first
RECURSIVE NameEnd(_, _)
NameEnd(s, j) ==
    IF HeaderAt(s, j) > 0 THEN j
    ELSE IF j <= Len(s) /\ s[j] \in NameClass THEN NameEnd(s, j + 1)
    ELSE 0

\* re.findall(talk_action_pattern, clean_content), searching from index i on:
\* the leftmost index n at which the pattern matches gives a pair, and the
\* search resumes after the match
RECURSIVE TalkMatches(_, _)
TalkMatches(s, i) ==
    LET n == First({k \in i..Len(s) : s[k] \in NameClass /\ NameEnd(s, k + 1) > 0}, 0)
    IN IF n = 0 THEN <<>>
       ELSE LET j == NameEnd(s, n + 1)
                g == HeaderAt(s, j)
                e == GroupEnd(s, g)
            IN <<[agent_name |-> SubSeq(s, n, j - 1), content |-> SubSeq(s, g, e)]>>
                   \o TalkMatches(s, e + 1)

\* content.split('\n')
RECURSIVE SplitLines(_)
SplitLines(s) ==
    LET k == SkipTo(s, 1, "\n")
    IN IF k > Len(s) THEN <<s>>
       ELSE <<SubSeq(s, 1, k - 1)>> \o SplitLines(SubSeq(s, k + 1, Len(s)))

\* the "for line in content.split" loop: content_lines
RECURSIVE ContentLines(_)
ContentLines(lines) ==
    IF lines = <<>> THEN <<>>
    ELSE LET line == Strip(Head(lines))
         IN (IF line # <<>> /\ Head(line) = ">" THEN <<Strip(Tail(line))>>
             ELSE IF line # <<>> THEN <<line>>
             ELSE <<>>) \o ContentLines(Tail(lines))

\* ' '.join(content_lines)
RECURSIVE JoinLines(_)
JoinLines(lines) ==
    IF lines = <<>> THEN <<>>
    ELSE IF Len(lines) = 1 THEN Head(lines)
    ELSE Head(lines) \o <<" ">> \o JoinLines(Tail(lines))

\* clean_content = ' '.join(content_lines).strip()
CleanContent(content) == Strip(JoinLines(ContentLines(SplitLines(content))))

\* a loop that numbers the matches from the last one down
RECURSIVE TalkRecordsCountingDown(_, _)
TalkRecordsCountingDown(talk_matches, i) ==
    IF i > Len(talk_matches) THEN <<>>
    ELSE LET clean_content == CleanContent(talk_matches[i].content)
         IN (IF LongEnough(clean_content)
             THEN <<InteractionRecord(Len(talk_matches) - i + 1,
                                      Strip(talk_matches[i].agent_name), clean_content)>>
             ELSE <<>>) \o TalkRecordsCountingDown(talk_matches, i + 1)

\* for i, (agent_name, content) in enumerate(talk_matches, 1), from match i on
RECURSIVE TalkRecords(_, _)
TalkRecords(talk_matches, i) ==
    IF i > Len(talk_matches) THEN <<>>
    ELSE LET clean_content == CleanContent(talk_matches[i].content)
         IN (IF LongEnough(clean_content)
             THEN <<InteractionRecord(i, Strip(talk_matches[i].agent_name), clean_content)>>
             ELSE <<>>) \o TalkRecords(talk_matches, i + 1)

\* _parse_tinytroupe_formatted_output(conversation_content)
ParseTinytroupeFormattedOutput(text) ==
    IF text = <<>> THEN <<>>
    ELSE TalkRecords(TalkMatches(StripStyle(StripAnsi(text, 1), 1), 1), 1)

\* ---------------------------------------- _convert_actions_to_interactions
Output(fn, raised, calls, result) ==
    [fn |-> fn, raised |-> raised, calls |-> calls, result |-> result]

\* "if actions_over_time:"
Truthy(stream) == stream.kind = "list" /\ stream.items # <<>>

\* a conversion that parses the rendered transcript whenever there is one
ConvertPreferringTranscript(stream, text) ==
    IF text # <<>>
    THEN Output("convert", FALSE, <<"fallback">>, ParseTinytroupeFormattedOutput(text))
    ELSE IF Truthy(stream)
    THEN LET structured == ParseActionsChronologically(stream)
         IN Output("convert", structured.raised, <<"structured">>, structured.records)
    ELSE Output("convert", FALSE, <<>>, <<>>)

\* _convert_actions_to_interactions(actions_over_time, conversation_content)
ConvertActionsToInteractions(stream, text) ==
    IF Truthy(stream)
    THEN LET structured == ParseActionsChronologically(stream)
         IN IF structured.raised THEN Output("convert", TRUE, <<"structured">>, <<>>)
            ELSE IF Len(structured.records) = 0 /\ text # <<>>
            THEN Output("convert", FALSE, <<"structured", "fallback">>,
                        ParseTinytroupeFormattedOutput(text))
            ELSE Output("convert", FALSE, <<"structured">>, structured.records)
    ELSE IF text # <<>>
    THEN Output("convert", FALSE, <<"fallback">>, ParseTinytroupeFormattedOutput(text))
    ELSE Output("convert", FALSE, <<>>, <<>>)

\* --------------------------------------------------------- result extraction
\* numbers that Python computes by division are kept as exact fractions
Ratio(num, den) == [num |-> num, den |-> den]

Min(a, b) == IF a <= b THEN a ELSE b

\* a response of the engine's output: a str of so many characters, or a value
\* that is not a str whose str() has so many characters
Response(kind, length) == [kind |-> kind, len |-> length]

\* sum(len(str(r)) for r in responses)
RECURSIVE SumOfLengths(_)
SumOfLengths(responses) ==
    IF responses = <<>> THEN 0 ELSE Head(responses).len + SumOfLengths(Tail(responses))

\* the responses that pass isinstance(response, str)
StrResponses(responses) == SelectSeq(responses, LAMBDA r : r.kind = "str")

\* the participants of the "for participant in participants" loop that are dicts
\* with a list under 'responses'
Responding(participants) ==
    SelectSeq(participants,
              LAMBDA q : q.kind = "dict" /\ q.responses.kind = "list")

\* all responses of the responding participants, in order
RECURSIVE AllResponses(_)
AllResponses(participants) ==
    IF participants = <<>> THEN <<>>
    ELSE Head(participants).responses.items \o AllResponses(Tail(participants))

\* isinstance(results, dict) and "participants" in results, and the value is a list
HasParticipantList(results) ==
    /\ results.kind = "dict"
    /\ results.participants.kind = "list"

\* _calculate_statistics(results)
CalculateStatistics(results) ==
    IF ~HasParticipantList(results)
    THEN [total_participants |-> 0, total_responses |-> 0,
          average_response_length |-> Ratio(0, 1), response_rate |-> Ratio(0, 1),
          completion_rate |-> Ratio(100, 1)]
    ELSE LET participants == results.participants.items
             responses == AllResponses(Responding(participants))
             response_lengths == StrResponses(responses)
         IN [total_participants |-> Len(participants),
             total_responses |-> Len(responses),
             average_response_length |->
                 IF response_lengths # <<>>
                 THEN Ratio(SumOfLengths(response_lengths), Len(response_lengths))
                 ELSE Ratio(0, 1),
             response_rate |->
                 IF Len(participants) > 0
                 THEN Ratio(Len(responses) * 100, Len(participants))
                 ELSE Ratio(0, 1),
             completion_rate |-> Ratio(100, 1)]

\* a score that is not clipped
Unclipped(score) == score

\* min(score, 1.0)
ClipToOne(score) == Ratio(Min(score.num, score.den), score.den)

\* "if responses:" for participant.get("responses", []): an absent entry, None,
\* the number 0 and the empty list are false
ResponsesTruthy(responses) ==
    IF responses.kind \in {"missing", "none"} THEN FALSE
    ELSE IF responses.kind = "int" THEN responses.value # 0
    ELSE responses.items # <<>>

\* _calculate_engagement_score(participant): 0.0 when "if responses:" is false,
\* 0.5 when len(responses) raises (a number other than 0), otherwise the clipped
\* sum of min(len * 0.2, 1.0) and min(avg_length / 100, 0.5), here over the
\* denominator 500 * len(responses)
CalculateEngagementScore(participant) ==
    LET responses == participant.responses
    IN IF ~ResponsesTruthy(responses) THEN Ratio(0, 1)
       ELSE IF responses.kind # "list" THEN Ratio(1, 2)
       ELSE LET n == Len(responses.items)
                total == SumOfLengths(responses.items)
            IN ClipToOne(Ratio(Min(100 * n * n, 500 * n) + Min(5 * total, 250 * n),
                               500 * n))

\* participant.get("sentiment", "neutral")
SentimentOf(participant) ==
    IF participant.sentiment = "missing" THEN "neutral" ELSE participant.sentiment

Sentiments == <<"positive", "negative", "neutral">>

\* _analyze_sentiment(results)
AnalyzeSentiment(results) ==
    LET dicts == IF HasParticipantList(results)
                 THEN SelectSeq(results.participants.items, LAMBDA q : q.kind = "dict")
                 ELSE <<>>
        count(v) == Len(SelectSeq(dicts, LAMBDA q : SentimentOf(q) = v))
        total_responses == Len(dicts)
        best == CHOOSE i \in 1..3 :
                    /\ \A j \in 1..3 : count(Sentiments[j]) <= count(Sentiments[i])
                    /\ \A j \in 1..(i - 1) : count(Sentiments[j]) < count(Sentiments[i])
    IN [distribution |->
            IF total_responses > 0
            THEN [v \in {"positive", "negative", "neutral"} |->
                     [count |-> count(v),
                      percentage |-> Ratio(count(v) * 100, total_responses)]]
            ELSE <<>>,
        total_analyzed |-> total_responses,
        dominant_sentiment |-> IF total_responses > 0 THEN Sentiments[best] ELSE "neutral"]

\* _extract_themes(results): the fixed candidate list
ExtractThemes(results) ==
    [theme \in {"Product Quality", "Price Sensitivity", "User Experience",
                "Brand Perception"} |-> [frequency |-> 0, examples |-> <<>>]]

\* the entries of _extract_individual_responses(results): one for each participant
\* that is a dict, with its position among all participants
RECURSIVE IndividualResponses(_, _)
IndividualResponses(participants, i) ==
    IF i > Len(participants) THEN <<>>
    ELSE (IF participants[i].kind = "dict"
          THEN <<[participant_id |-> i - 1,
                  responses |-> IF participants[i].responses.kind = "missing"
                                THEN [kind |-> "list", items |-> <<>>]
                                ELSE participants[i].responses,
                  sentiment |-> SentimentOf(participants[i]),
                  engagement_score |-> CalculateEngagementScore(participants[i])]>>
          ELSE <<>>) \o IndividualResponses(participants, i + 1)

ExtractIndividualResponses(results) ==
    IF HasParticipantList(results) THEN IndividualResponses(results.participants.items, 1)
    ELSE <<>>

\* _convert_to_dataframe_format(processed_results): len() of a 'responses' value
\* that is not a list raises, and the function returns its error dict
ConvertToDataframeFormat(processed) ==
    IF \E i \in 1..Len(processed.individual_responses) :
           processed.individual_responses[i].responses.kind # "list"
    THEN [kind |-> "error", error |-> "DataFrame conversion failed"]
    ELSE [kind |-> "dataframe",
          tabular_data |->
              [i \in 1..Len(processed.individual_responses) |->
                  [participant_id |-> processed.individual_responses[i].participant_id,
                   sentiment |-> processed.individual_responses[i].sentiment,
                   engagement_score |-> processed.individual_responses[i].engagement_score,
                   response_count |->
                       Len(processed.individual_responses[i].responses.items)]],
          summary_statistics |-> processed.statistical_analysis,
          export_ready |-> TRUE]

ResultTypes == {"structured", "dataframe", "json"}

\* _process_extraction_results(raw_results, result_type)
ProcessExtractionResults(raw, result_type) ==
    LET processed == [kind |-> "processed",
                      raw_data |-> raw,
                      statistical_analysis |-> CalculateStatistics(raw),
                      individual_responses |-> ExtractIndividualResponses(raw),
                      sentiment_distribution |-> AnalyzeSentiment(raw),
                      key_themes |-> ExtractThemes(raw)]
    IN IF result_type = "dataframe" THEN ConvertToDataframeFormat(processed) ELSE processed

\* ---------------------------------------------------------- _extract_results
\* a dict with an 'error' entry
ErrorResult(message) == [kind |-> "error", error |-> message]

\* a call of the engine on an agent, returning or raising
AgentCall(fn, agent, ok) == [fn |-> fn, agent |-> agent, raised |-> ~ok]

\* an extraction that gives up when the consolidation raises
ExtractResultsAborting(agents, consolidation_ok, extraction_ok, raw, result_type) ==
    IF agents = <<>>
    THEN [calls |-> <<>>, raised |-> FALSE,
          result |-> ErrorResult("No agents available for results extraction")]
    ELSE IF ~consolidation_ok
    THEN [calls |-> <<AgentCall("listen_and_act", Head(agents), FALSE)>>, raised |-> FALSE,
          result |-> ErrorResult("Failed to extract results")]
    ELSE [calls |-> <<AgentCall("listen_and_act", Head(agents), TRUE),
                      AgentCall("extract_results_from_agent", Head(agents), extraction_ok)>>,
          raised |-> FALSE,
          result |-> IF extraction_ok THEN ProcessExtractionResults(raw, result_type)
                     ELSE ErrorResult("Failed to extract results")]

\* an extraction that lets the exception of the extractor out
ExtractResultsRaising(agents, consolidation_ok, extraction_ok, raw, result_type) ==
    IF agents = <<>>
    THEN [calls |-> <<>>, raised |-> TRUE, result |-> PyNone]
    ELSE [calls |-> <<AgentCall("listen_and_act", Head(agents), consolidation_ok),
                      AgentCall("extract_results_from_agent", Head(agents), extraction_ok)>>,
          raised |-> ~extraction_ok,
          result |-> IF extraction_ok THEN ProcessExtractionResults(raw, result_type)
                     ELSE PyNone]

\* _extract_results(agents, objective, result_type): the first agent is the
\* rapporteur; listen_and_act on the consolidation prompt returns or raises
\* (caught, lines 287-290); extract_results_from_agent returns raw or raises
\* (caught, lines 315-319). The calls made on the engine, whether the function
\* raised, and what it returned.
ExtractResults(agents, consolidation_ok, extraction_ok, raw, result_type) ==
    IF agents = <<>>
    THEN [calls |-> <<>>, raised |-> FALSE,
          result |-> ErrorResult("No agents available for results extraction")]
    ELSE LET rapporteur == Head(agents)
         IN [calls |-> <<AgentCall("listen_and_act", rapporteur, consolidation_ok),
                         AgentCall("extract_results_from_agent", rapporteur, extraction_ok)>>,
             raised |-> FALSE,
             result |-> IF extraction_ok THEN ProcessExtractionResults(raw, result_type)
                        ELSE ErrorResult("Failed to extract results")]

\* ------------------------------------- the rapporteur's memory configuration
\* the attributes of a TinyPerson that _extract_results reads and assigns:
\* semantic_memory ("missing": no such attribute, "none": None, otherwise a
\* SemanticMemory object) and _disable_semantic_memory ("missing", "True", "False")
SemanticMemoryStates == {"missing", "none", "empty", "loaded"}

DisableFlagStates == {"missing", "True", "False"}

Person(name, semantic_memory, disable_semantic_memory) ==
    [name |-> name, original_id |-> "", semantic_memory |-> semantic_memory,
     disable_semantic_memory |-> disable_semantic_memory]

\* hasattr(rapporteur, 'semantic_memory') and rapporteur.semantic_memory is not None
HasSemanticMemory(rapporteur) == rapporteur.semantic_memory \notin {"missing", "none"}

\* original_semantic_memory: None unless the agent has a semantic memory (lines 268, 274)
OriginalSemanticMemory(rapporteur) ==
    IF HasSemanticMemory(rapporteur) THEN rapporteur.semantic_memory ELSE "none"

\* getattr(rapporteur, '_disable_semantic_memory', False)
OriginalDisableSemantic(rapporteur) ==
    IF rapporteur.disable_semantic_memory = "missing" THEN "False"
    ELSE rapporteur.disable_semantic_memory

\* lines 273-278: the semantic memory is taken away for the consolidation, and the
\* flag is set if the attribute exists
DisableSemanticMemory(rapporteur) ==
    IF HasSemanticMemory(rapporteur)
    THEN [rapporteur EXCEPT !.semantic_memory = "none",
                            !.disable_semantic_memory =
                                IF @ # "missing" THEN "True" ELSE @]
    ELSE rapporteur

\* a finally block that puts the memory back and leaves the flag as it is
RestoreSemanticMemoryOnly(rapporteur, original_semantic_memory, original_disable_semantic) ==
    [rapporteur EXCEPT !.semantic_memory =
                           IF original_semantic_memory # "none"
                           THEN original_semantic_memory ELSE @]

\* lines 291-297, the finally block: the memory is put back if one was taken, the
\* flag is assigned its original value if the attribute exists
RestoreSemanticMemory(rapporteur, original_semantic_memory, original_disable_semantic) ==
    [rapporteur EXCEPT !.semantic_memory =
                           IF original_semantic_memory # "none"
                           THEN original_semantic_memory ELSE @,
                       !.disable_semantic_memory =
                           IF @ # "missing" THEN original_disable_semantic ELSE @]

\* _extract_results(agents, ...) on the TinyPerson objects agents[i]: the
\* rapporteur is changed for the consolidation and restored before the
\* extraction; what the two engine calls saw of it is recorded with the result
ExtractResultsFrom(agents, consolidation_ok, extraction_ok, result_type) ==
    LET names == [i \in 1..Len(agents) |-> agent_objects[agents[i]].name]
        extracted == ExtractResults(names, consolidation_ok, extraction_ok, raw_results,
                                    result_type)
        rapporteur == agent_objects[Head(agents)]
        consolidating == DisableSemanticMemory(rapporteur)
        restored == RestoreSemanticMemory(consolidating, OriginalSemanticMemory(rapporteur),
                                          OriginalDisableSemantic(rapporteur))
    IN /\ \A i \in 1..Len(agents) : agents[i] \in DOMAIN agent_objects
       /\ IF agents = <<>>
          THEN /\ agent_objects' = agent_objects
               /\ parse_out' = [fn |-> "extract_results", raised |-> extracted.raised,
                                calls |-> extracted.calls, result |-> extracted.result,
                                rapporteur |-> 0, seen |-> <<>>]
          ELSE /\ agent_objects' = [agent_objects EXCEPT ![Head(agents)] = restored]
               /\ parse_out' = [fn |-> "extract_results", raised |-> extracted.raised,
                                calls |-> extracted.calls, result |-> extracted.result,
                                rapporteur |-> Head(agents),
                                seen |-> <<consolidating, restored>>]
       /\ UNCHANGED <<active_sessions, session_checkpoints, meta_files, control_ends,
                      last_op, session_cache, load_log, actions_over_time,
                      conversation_content, rendered_blocks, engine_cache, run_vars>>

\* ------------------------------------------------- inputs of the extraction
MaxResponses == 5

ResponseInputs ==
    {Response("str", 0), Response("str", 40), Response("str", 120), Response("int", 3)}

Participant(responses, sentiment) ==
    [kind |-> "dict", responses |-> responses, sentiment |-> sentiment]

\* participants with up to MaxResponses responses, and with a 'responses' value
\* that is absent, None, or a number (0 and 3)
EngagedParticipants ==
    {Participant([kind |-> "list", items |-> rs], "positive") :
        rs \in UNION {[1..n -> ResponseInputs] : n \in 0..MaxResponses}}
    \cup {Participant([kind |-> k], "neutral") : k \in {"missing", "none"}}
    \cup {Participant(PyNumber(v), "neutral") : v \in {0, 3}}

\* participants of a discussion of two; the last is not a dict
SmallParticipants ==
    {Participant([kind |-> "list", items |-> <<>>], "missing"),
     Participant([kind |-> "list", items |-> <<Response("str", 40)>>], "positive"),
     Participant([kind |-> "list",
                  items |-> <<Response("str", 120), Response("int", 3)>>], "negative"),
     Participant([kind |-> "missing"], "mixed"),
     Participant(PyNumber(3), "negative"),
     [kind |-> "int"]}

RawResults(participants) == [kind |-> "dict", participants |-> participants]

\* what extract_results_from_agent can return: None, a dict without participants,
\* participants that are not a list, no participant, one, two
RawInputs ==
    {[kind |-> "none"], RawResults([kind |-> "missing"]), RawResults([kind |-> "none"]),
     RawResults([kind |-> "list", items |-> <<>>])}
    \cup {RawResults([kind |-> "list", items |-> <<q>>]) : q \in EngagedParticipants}
    \cup {RawResults([kind |-> "list", items |-> <<q1, q2>>]) :
              q1 \in SmallParticipants, q2 \in SmallParticipants}

\* ------------------------------------------------- inputs of the transcript
\* a text of n characters c
Text(n, c) == [i \in 1..n |-> c]

\* an entry {'action': {'type': 'TALK', 'content': content}} of an agent's list
TalkAction(content) ==
    [kind |-> "dict",
     action |-> [kind |-> "dict", type |-> PyStr(TALK), content |-> content]]

\* contents above the threshold, and one whose trimmed length is the threshold
TalkX == TalkAction(PyStr(Text(MinContentLength + 1, "x")))
TalkY == TalkAction(PyStr(<<" ">> \o Text(MinContentLength + 2, "y") \o <<"\n">>))
TalkZ == TalkAction(PyStr(<<" ">> \o Text(MinContentLength, "z") \o <<" ">>))

ThinkAction ==
    [kind |-> "dict",
     action |-> [kind |-> "dict", type |-> PyStr(<<"T", "H", "I", "N", "K">>),
                 content |-> PyStr(Text(MinContentLength + 1, "x"))]]

\* malformed entries: a payload that is not a dict, a dict without 'action', an
\* action that is not a dict, a type that is not a string, no content
MalformedEntries ==
    <<PyInt,
      [kind |-> "dict", action |-> Missing],
      [kind |-> "dict", action |-> PyStr(TALK)],
      [kind |-> "dict",
       action |-> [kind |-> "dict", type |-> PyInt,
                   content |-> PyStr(Text(MinContentLength + 1, "x"))]],
      [kind |-> "dict",
       action |-> [kind |-> "dict", type |-> Missing,
                   content |-> PyStr(Text(MinContentLength + 1, "x"))]],
      TalkAction(Missing)>>

\* the action lists of one agent in one round
AgentActionInputs ==
    {PyList(<<TalkX>>),
     PyList(<<TalkZ>>),
     PyList(<<TalkX, TalkY>>),
     PyList(<<ThinkAction>>),
     PyList(MalformedEntries \o <<TalkX>>),
     PyList(<<TalkAction(PyNone)>>),
     PyNone}

\* the action lists of the second agent of a round
SecondAgentInputs == {PyList(<<TalkX>>), PyList(<<TalkZ>>), PyList(<<TalkY, TalkX>>), PyNone}

\* the engine's names of the agents A and B: A carries a session suffix
AgentA == <<"A", "_", "0", "a", "1", "b", "2", "c", "3", "d">>
AgentB == <<"B">>

\* the entry of one round: {A: [...], B: [...]} in the engine's order, or an entry
\* that is not a dict
RoundInputs ==
    {PyNone} \cup
    {[kind |-> "dict", items |-> <<[key |-> AgentA, value |-> la],
                                   [key |-> AgentB, value |-> lb]>>] :
        la \in AgentActionInputs, lb \in SecondAgentInputs}

\* action streams of up to MaxRounds rounds
StreamInputs ==
    {PyList(rounds) : rounds \in UNION {[1..n -> RoundInputs] : n \in 0..MaxRounds}}

\* "<AgentName> acts: [TALK]" and a newline
HeaderLine(name) ==
    name \o <<" ", "a", "c", "t", "s", ":", " ", "[">> \o TALK \o <<"]", "\n">>

\* an indented continuation line: the marker, the text and a newline
MarkerLine(text) == <<" ", " ", ">", " ">> \o text \o <<"\n">>

RECURSIVE MarkerLines(_)
MarkerLines(texts) ==
    IF texts = <<>> THEN <<>> ELSE MarkerLine(Head(texts)) \o MarkerLines(Tail(texts))

\* the rendering of one agent block
Block(name, texts) == HeaderLine(name) \o MarkerLines(texts)

NameInputs == {<<"A">>, <<"B", "o", "b">>, <<"B", "2">>}

LineP == Text(MinContentLength + 1, "p")
LineQ == Text(MinContentLength - 3, "q")
LineShort == <<"h", "i">>
LineInputs == {LineP, LineQ, LineShort, <<>>}

\* blocks of two continuation lines
BlockInputs ==
    {[name |-> n, texts |-> <<t1, t2>>] :
        n \in NameInputs, t1 \in LineInputs, t2 \in LineInputs}

\* transcripts of two agent blocks
TwoBlocks == {<<b1, b2>> : b1 \in BlockInputs, b2 \in BlockInputs}

Render(blocks) ==
    Block(blocks[1].name, blocks[1].texts) \o Block(blocks[2].name, blocks[2].texts)

\* a transcript with Rich styling: colour escapes and style tags around one block
StyledTranscript ==
    <<Esc, "[", "1", ";", "3", "2", "m", "[", "b", "o", "l", "d", "]">>
        \o <<"A", "n", "n", "_", "0", "a", "1", "b", "2", "c", "3", "d">>
        \o <<"[", "/", "]", Esc, "[", "0", "m">>
        \o <<" ", "a", "c", "t", "s", ":", " ", "[">> \o TALK \o <<"]", " ", "\n">>
        \o MarkerLine(LineP) \o MarkerLine(<<"[", "i", "]">> \o LineQ)

\* streams that yield no record, one record, and an exception
EmptyStreams == {PyNone, PyList(<<>>)}
ThinkStream ==
    PyList(<<[kind |-> "dict",
              items |-> <<[key |-> AgentA, value |-> PyList(<<ThinkAction>>)]>>]>>)
TalkStream ==
    PyList(<<[kind |-> "dict", items |-> <<[key |-> AgentA, value |-> PyList(<<TalkX>>)]>>]>>)

\* what run_simulation hands to the conversion: every stream with no transcript,
\* and a few streams with every transcript
InitTranscript ==
    /\ active_sessions = <<>>
    /\ session_checkpoints = <<>>
    /\ meta_files = <<>>
    /\ control_ends = <<>>
    /\ last_op = NoOp
    /\ session_cache = <<>>
    /\ agent_objects = <<>>
    /\ load_log = {}
    /\ NoRuns
    /\ parse_out = NoOutput
    /\ \/ /\ actions_over_time \in StreamInputs
          /\ conversation_content = <<>>
          /\ rendered_blocks = <<>>
       \/ /\ actions_over_time \in EmptyStreams \cup {ThinkStream, TalkStream}
          /\ \/ /\ rendered_blocks \in TwoBlocks
                /\ conversation_content = Render(rendered_blocks)
             \/ /\ rendered_blocks = <<>>
                /\ conversation_content = StyledTranscript

\* action lists for the replay of a run: an utterance repeated, utterances around
\* a thought, only a thought, nothing, a short utterance, a content that is None
ReplayActionInputs ==
    {PyList(<<TalkX, TalkX>>),
     PyList(<<TalkX, ThinkAction, TalkX, TalkY>>),
     PyList(<<ThinkAction>>),
     PyList(<<>>),
     PyList(<<TalkZ, TalkX>>),
     PyList(<<TalkAction(PyNone)>>)}

ReplaySecondInputs == {PyList(<<TalkX, TalkX>>), PyList(<<ThinkAction>>), PyList(<<>>)}

ReplayRoundInputs ==
    {[kind |-> "dict", items |-> <<[key |-> AgentA, value |-> la],
                                   [key |-> AgentB, value |-> lb]>>] :
        la \in ReplayActionInputs, lb \in ReplaySecondInputs}

ReplayStreamInputs ==
    {PyList(rounds) : rounds \in UNION {[1..n -> ReplayRoundInputs] : n \in 0..MaxRounds}}

\* the streams of runs whose agents repeat themselves, think, or stay silent
InitReplay ==
    /\ active_sessions = <<>>
    /\ session_checkpoints = <<>>
    /\ meta_files = <<>>
    /\ control_ends = <<>>
    /\ last_op = NoOp
    /\ session_cache = <<>>
    /\ agent_objects = <<>>
    /\ load_log = {}
    /\ NoRuns
    /\ parse_out = NoOutput
    /\ actions_over_time \in ReplayStreamInputs
    /\ conversation_content = <<>>
    /\ rendered_blocks = <<>>

\* the engine's output handed to the statistics functions
InitExtraction ==
    /\ active_sessions = <<>>
    /\ session_checkpoints = <<>>
    /\ meta_files = <<>>
    /\ control_ends = <<>>
    /\ last_op = NoOp
    /\ session_cache = <<>>
    /\ agent_objects = <<>>
    /\ load_log = {}
    /\ engine_cache = NoCache
    /\ active_simulations = <<>>
    /\ runs = <<>>
    /\ returned = <<>>
    /\ raw_results \in RawInputs
    /\ parse_out = NoOutput
    /\ actions_over_time = PyNone
    /\ conversation_content = <<>>
    /\ rendered_blocks = <<>>

session_vars == <<active_sessions, session_checkpoints, meta_files, control_ends, last_op,
                  session_cache, agent_objects, load_log, engine_cache, run_vars>>

\* _parse_actions_chronologically applied to the stream
ParseActions ==
    /\ parse_out = NoOutput
    /\ actions_over_time.kind = "list"
    /\ LET parsed == ParseActionsChronologically(actions_over_time)
       IN parse_out' = Output("structured", parsed.raised, <<"structured">>, parsed.records)
    /\ UNCHANGED <<session_vars, actions_over_time, conversation_content, rendered_blocks>>

\* _parse_tinytroupe_formatted_output applied to the transcript
ParseFormatted ==
    /\ parse_out = NoOutput
    /\ parse_out' = Output("fallback", FALSE, <<"fallback">>,
                           ParseTinytroupeFormattedOutput(conversation_content))
    /\ UNCHANGED <<session_vars, actions_over_time, conversation_content, rendered_blocks>>

\* _convert_actions_to_interactions applied to both
Convert ==
    /\ parse_out = NoOutput
    /\ parse_out' = ConvertActionsToInteractions(actions_over_time, conversation_content)
    /\ UNCHANGED <<session_vars, actions_over_time, conversation_content, rendered_blocks>>

\* a function of the extraction applied to the engine's output
Applied(fn, result) ==
    /\ parse_out = NoOutput
    /\ parse_out' = Output(fn, FALSE, <<>>, result)
    /\ UNCHANGED <<session_vars, actions_over_time, conversation_content, rendered_blocks>>

Statistics == Applied("calculate_statistics", CalculateStatistics(raw_results))

Sentiment == Applied("analyze_sentiment", AnalyzeSentiment(raw_results))

Themes == Applied("extract_themes", ExtractThemes(raw_results))

\* _calculate_engagement_score on a participant of the output that is a dict
Engagement ==
    /\ HasParticipantList(raw_results)
    /\ \E i \in 1..Len(raw_results.participants.items) :
          /\ raw_results.participants.items[i].kind = "dict"
          /\ Applied("calculate_engagement_score",
                     [participant |-> i,
                      score |-> CalculateEngagementScore(raw_results.participants.items[i])])

Process == \E result_type \in ResultTypes :
               Applied("process_extraction_results",
                       ProcessExtractionResults(raw_results, result_type))

\* ------------------------------------------------------------ run_simulation
\* the agents handed to run_simulation: none, one, two
RunAgentInputs == {<<>>, <<AgentA>>, <<AgentA, AgentB>>}

\* request.interaction_config.rounds and request.extraction_config
RunRequests ==
    {[rounds |-> r, extract_results |-> FALSE, result_type |-> "json"] : r \in 1..MaxRounds}
    \cup {[rounds |-> MaxRounds, extract_results |-> TRUE, result_type |-> t] :
             t \in {"json", "dataframe"}}

\* the stream of a run in which every agent talks once in every round
EngineStream(agents, rounds) ==
    PyList([r \in 1..rounds |->
               [kind |-> "dict",
                items |-> [k \in 1..Len(agents) |->
                              [key |-> agents[k], value |-> PyList(<<TalkX>>)]]]])

\* what world.run and world.pretty_current_interactions hand back: that stream
\* and no transcript, a stream with a TALK whose content is None, no stream and
\* a transcript of one block
RunOutputs(agents, rounds) ==
    {<<EngineStream(agents, rounds), <<>>>>,
     <<PyList(<<[kind |-> "dict",
                 items |-> <<[key |-> AgentA,
                              value |-> PyList(<<TalkAction(PyNone)>>)]>>]>>), <<>>>>,
     <<PyList(<<>>), Block(<<"A">>, <<LineP>>)>>}

\* what extract_results_from_agent returns in a run: None, one participant with
\* one response, one participant whose 'responses' is a number
RunRawInputs ==
    {[kind |-> "none"],
     RawResults([kind |-> "list",
                 items |-> <<Participant([kind |-> "list",
                                          items |-> <<Response("str", 40)>>],
                                         "positive")>>]),
     RawResults([kind |-> "list", items |-> <<Participant(PyNumber(3), "negative")>>])}

\* the engine calls of lines 717-750 that can raise
BeginFailures == {"control.reset", "control.begin", "TinyWorld"}

\* simulation_id = str(uuid.uuid4()): an id no call had before
NewSimulationId == Cardinality(DOMAIN runs) + 1

other_vars == <<active_sessions, session_checkpoints, meta_files, control_ends, last_op,
                session_cache, agent_objects, load_log, transcript_vars, raw_results>>

\* what a run_simulation call hands to its caller: the SimulationResponse
Response200(run, extracted_results) ==
    [raised |-> FALSE, status |-> COMPLETED, interactions |-> run.interactions,
     extracted_results |-> extracted_results, participants |-> run.agents]

\* the except branch of run_simulation (lines 828-830): the record of the
\* simulation is marked failed and Exception("Simulation failed: <original>") is
\* raised; without a record the subscript raises KeyError(simulation_id)
FailRunIn(simulations, simulation_id, failure) ==
    IF simulation_id \in DOMAIN simulations
    THEN [simulations |-> [simulations EXCEPT ![simulation_id].status = FAILED],
          outcome |-> [raised |-> TRUE,
                       error |-> [type |-> "Exception", prefix |-> "Simulation failed: ",
                                  original |-> failure]]]
    ELSE [simulations |-> simulations,
          outcome |-> [raised |-> TRUE,
                       error |-> [type |-> "KeyError", key |-> simulation_id]]]

FailRun(simulation_id, failure) == FailRunIn(active_simulations, simulation_id, failure)

\* a step of the call that raised: the except branch and the end of the call
Fails(simulation_id, failure) ==
    LET failed == FailRun(simulation_id, failure)
    IN /\ active_simulations' = failed.simulations
       /\ returned' = returned @@ (simulation_id :> failed.outcome)

\* run_simulation, lines 713-759: a new id, control.reset(), control.begin(cache
\* path), the world, the record with status running
RunSimulation(agents, request, failure) ==
    LET simulation_id == NewSimulationId
        run == [pc |-> "broadcast", agents |-> agents, rounds |-> request.rounds,
                extract_results |-> request.extract_results,
                result_type |-> request.result_type,
                control |-> <<>>, rounds_run |-> 0, stopped |-> FALSE,
                interactions |-> <<>>, extraction |-> <<>>, raw |-> PyNone]
    IN /\ simulation_id <= MaxSimulations
       /\ engine_cache' = IF failure = "control.reset" THEN engine_cache
                          ELSE IF failure = "control.begin" THEN NoCache
                          ELSE RunCache(simulation_id)
       /\ IF failure = "none"
          THEN /\ active_simulations' =
                      active_simulations @@
                          (simulation_id :> [status |-> RUNNING, interactions |-> <<>>])
               /\ runs' = runs @@ (simulation_id :>
                                      [run EXCEPT !.control = <<"reset", "begin">>])
               /\ returned' = returned
          ELSE /\ Fails(simulation_id, failure)
               /\ runs' = runs @@ (simulation_id :>
                              [run EXCEPT !.pc = "done",
                                          !.control =
                                              IF failure = "control.reset" THEN <<>>
                                              ELSE IF failure = "control.begin"
                                              THEN <<"reset">> ELSE <<"reset", "begin">>])
       /\ UNCHANGED other_vars

\* lines 763-785: world.broadcast(stimulus) and world.broadcast_thought(...)
Broadcast(simulation_id, ok) ==
    /\ simulation_id \in DOMAIN runs
    /\ runs[simulation_id].pc = "broadcast"
    /\ IF ok
       THEN /\ runs' = [runs EXCEPT ![simulation_id].pc = "rounds"]
            /\ UNCHANGED <<active_simulations, returned>>
       ELSE /\ Fails(simulation_id, "world.broadcast")
            /\ runs' = [runs EXCEPT ![simulation_id].pc = "done"]
    /\ UNCHANGED <<other_vars, engine_cache>>

\* line 789: one round of world.run(rounds, return_actions=True); the engine
\* runs the rounds one after the other and does not read active_simulations
RunRound(simulation_id, ok) ==
    /\ simulation_id \in DOMAIN runs
    /\ runs[simulation_id].pc = "rounds"
    /\ IF ok
       THEN /\ runs' = [runs EXCEPT
                           ![simulation_id].rounds_run = @ + 1,
                           ![simulation_id].pc =
                               IF runs[simulation_id].rounds_run + 1 =
                                      runs[simulation_id].rounds
                               THEN "render" ELSE "rounds"]
            /\ UNCHANGED <<active_simulations, returned>>
       ELSE /\ Fails(simulation_id, "world.run")
            /\ runs' = [runs EXCEPT ![simulation_id].pc = "done"]
    /\ UNCHANGED <<other_vars, engine_cache>>

\* lines 792-795: world.pretty_current_interactions(...) and the conversion of
\* the stream and the transcript into the interaction records
RenderAndConvert(simulation_id, ok, output) ==
    /\ simulation_id \in DOMAIN runs
    /\ runs[simulation_id].pc = "render"
    /\ LET converted == ConvertActionsToInteractions(output[1], output[2])
       IN IF ~ok
          THEN /\ Fails(simulation_id, "world.pretty_current_interactions")
               /\ runs' = [runs EXCEPT ![simulation_id].pc = "done"]
          ELSE IF converted.raised
          THEN /\ Fails(simulation_id, "_convert_actions_to_interactions")
               /\ runs' = [runs EXCEPT ![simulation_id].pc = "done"]
          ELSE /\ runs' = [runs EXCEPT ![simulation_id].pc = "extract",
                                       ![simulation_id].interactions = converted.result]
               /\ UNCHANGED <<active_simulations, returned>>
    /\ UNCHANGED <<other_vars, engine_cache>>

\* lines 798-826: the extraction when the request asks for it (an exception that
\* leaves _extract_results is raised again, line 810), status completed, and the
\* response
ExtractAndReturn(simulation_id, consolidation_ok, extraction_ok, raw) ==
    /\ simulation_id \in DOMAIN runs
    /\ runs[simulation_id].pc = "extract"
    /\ LET run == runs[simulation_id]
           extracted == ExtractResults(run.agents, consolidation_ok, extraction_ok, raw,
                                       run.result_type)
       IN IF ~run.extract_results
          THEN /\ active_simulations' =
                      [active_simulations EXCEPT ![simulation_id].status = COMPLETED]
               /\ returned' = returned @@ (simulation_id :> Response200(run, PyNone))
               /\ runs' = [runs EXCEPT ![simulation_id].pc = "done"]
          ELSE IF extracted.raised
          THEN /\ Fails(simulation_id, "_extract_results")
               /\ runs' = [runs EXCEPT ![simulation_id].pc = "done",
                                       ![simulation_id].extraction = extracted.calls,
                                       ![simulation_id].raw = raw]
          ELSE /\ active_simulations' =
                      [active_simulations EXCEPT ![simulation_id].status = COMPLETED]
               /\ returned' = returned @@
                                  (simulation_id :> Response200(run, extracted.result))
               /\ runs' = [runs EXCEPT ![simulation_id].pc = "done",
                                       ![simulation_id].extraction = extracted.calls,
                                       ![simulation_id].raw = raw]
    /\ UNCHANGED <<other_vars, engine_cache>>

\* a stop that ends the call in flight
StopSimulationAborting(simulation_id) ==
    /\ simulation_id \in DOMAIN active_simulations
    /\ active_simulations' = [active_simulations EXCEPT ![simulation_id].status = STOPPED]
    /\ runs' = [runs EXCEPT ![simulation_id].stopped = @ \/ runs[simulation_id].pc # "done",
                            ![simulation_id].pc = "done"]
    /\ returned' = IF runs[simulation_id].pc # "done"
                   THEN returned @@
                            (simulation_id :> Response200(runs[simulation_id], PyNone))
                   ELSE returned
    /\ UNCHANGED <<other_vars, engine_cache>>

\* stop_simulation(simulation_id) on a simulation that has a record: the status
\* of the record becomes stopped; the call of run_simulation notes that it was
\* stopped while in flight
StopSimulation(simulation_id) ==
    /\ simulation_id \in DOMAIN active_simulations
    /\ active_simulations' = [active_simulations EXCEPT ![simulation_id].status = STOPPED]
    /\ runs' = [runs EXCEPT ![simulation_id].stopped = @ \/ runs[simulation_id].pc # "done"]
    /\ UNCHANGED <<other_vars, engine_cache, returned>>

\* ------------------------------------------------------- run_focus_group
\* the engine calls of run_simulation that can raise, in the order of the code
RunFailures ==
    {"control.reset", "control.begin", "TinyWorld", "world.broadcast", "world.run",
     "world.pretty_current_interactions"}

\* run_simulation(request, agents) from the call to its return or raise, for a
\* caller that does not yield in between: the engine's transaction, the table of
\* simulations, the record of the call and its outcome. world.run raises after
\* rounds_run rounds.
RunSimulationToEnd(agents, request, failure, rounds_run, output, consolidation_ok, extraction_ok, raw) ==
    LET simulation_id == NewSimulationId
        run == [pc |-> "done", agents |-> agents, rounds |-> request.rounds,
                extract_results |-> request.extract_results,
                result_type |-> request.result_type,
                control |-> <<"reset", "begin">>, rounds_run |-> 0, stopped |-> FALSE,
                interactions |-> <<>>, extraction |-> <<>>, raw |-> PyNone]
        recorded == active_simulations @@
                        (simulation_id :> [status |-> RUNNING, interactions |-> <<>>])
        completed == [recorded EXCEPT ![simulation_id].status = COMPLETED]
        Ended(cache, simulations, outcome, record) ==
            [cache |-> cache, simulations |-> simulations, outcome |-> outcome,
             run |-> record]
        Failed(cache, simulations, point, record) ==
            Ended(cache, FailRunIn(simulations, simulation_id, point).simulations,
                  FailRunIn(simulations, simulation_id, point).outcome, record)
        converted == ConvertActionsToInteractions(output[1], output[2])
        extracted == ExtractResults(agents, consolidation_ok, extraction_ok, raw,
                                    request.result_type)
        rendered == [run EXCEPT !.rounds_run = request.rounds,
                                !.interactions = converted.result]
    IN IF failure = "control.reset"
       THEN Failed(engine_cache, active_simulations, failure, [run EXCEPT !.control = <<>>])
       ELSE IF failure = "control.begin"
       THEN Failed(NoCache, active_simulations, failure,
                   [run EXCEPT !.control = <<"reset">>])
       ELSE IF failure = "TinyWorld"
       THEN Failed(RunCache(simulation_id), active_simulations, failure, run)
       ELSE IF failure = "world.broadcast"
       THEN Failed(RunCache(simulation_id), recorded, failure, run)
       ELSE IF failure = "world.run"
       THEN Failed(RunCache(simulation_id), recorded, failure,
                   [run EXCEPT !.rounds_run = rounds_run])
       ELSE IF failure = "world.pretty_current_interactions"
       THEN Failed(RunCache(simulation_id), recorded, failure,
                   [run EXCEPT !.rounds_run = request.rounds])
       ELSE IF converted.raised
       THEN Failed(RunCache(simulation_id), recorded, "_convert_actions_to_interactions",
                   [run EXCEPT !.rounds_run = request.rounds])
       ELSE IF ~request.extract_results
       THEN Ended(RunCache(simulation_id), completed, Response200(rendered, PyNone),
                  rendered)
       ELSE IF extracted.raised
       THEN Failed(RunCache(simulation_id), recorded, "_extract_results",
                   [rendered EXCEPT !.extraction = extracted.calls, !.raw = raw])
       ELSE Ended(RunCache(simulation_id), completed,
                  Response200(rendered, extracted.result),
                  [rendered EXCEPT !.extraction = extracted.calls, !.raw = raw])

\* the request classes a handler can be given: the class the endpoint declares
\* (participants is a list), the legacy class (interaction_config has no
\* enable_semantic_memory), and a request that has every attribute the handler
\* and run_simulation read
RequestTypes == {"SimulationRequest", "SimulationRequestLegacy", "complete"}

\* the four handlers of the router that load agents and call run_simulation
SimulateHandlers ==
    {"run_focus_group", "run_individual_interaction", "run_social_simulation",
     "run_market_research"}

\* a handler from the request to the response. request.participants
\* .specifications of the declared class and request.interaction_config
\* .enable_semantic_memory of the legacy class (read when there are
\* specifications) raise AttributeError, answered with 400 before any agent is
\* loaded; run_market_research has no session_id to load an agent with
\* (NameError at the first load). Otherwise the agents are loaded under a new
\* session id, the number of agents is checked (one or more; exactly one in
\* run_individual_interaction) and run_simulation is called (not awaited: the
\* call runs to its end); what it raises is answered with 400.
SimulateEndpoint(handler, request_type, session_id, specifications, disable_semantic, load_ok, request, failure, rounds_run, output, consolidation_ok, extraction_ok, raw) ==
    LET st == LoadAgents(specifications, session_id, disable_semantic, load_ok,
                         [cache |-> session_cache, objects |-> agent_objects,
                          log |-> load_log, agents |-> <<>>, calls |-> <<>>,
                          raised |-> FALSE])
        names == [i \in 1..Len(st.agents) |-> st.objects[st.agents[i]].name]
        end == RunSimulationToEnd(names, request, failure, rounds_run, output,
                                  consolidation_ok, extraction_ok, raw)
        simulation_id == NewSimulationId
        refused == IF handler = "run_individual_interaction"
                   THEN Len(st.agents) # 1 ELSE st.agents = <<>>
    IN /\ session_id \notin DOMAIN session_cache
       /\ Len(agent_objects) + Len(specifications) <= MaxHandles
       /\ IF \/ request_type = "SimulationRequest"
             \/ request_type = "SimulationRequestLegacy" /\ specifications # <<>>
             \/ handler = "run_market_research" /\ specifications # <<>>
          THEN /\ last_op' = Op(handler, session_id, 0, "other_error", <<>>, 0)
               /\ UNCHANGED <<session_cache, agent_objects, load_log, engine_cache,
                              run_vars>>
          ELSE /\ session_cache' = st.cache
               /\ agent_objects' = st.objects
               /\ load_log' = st.log
               /\ IF st.raised
                  THEN /\ last_op' = Op(handler, session_id, 0, "load_error", st.calls, 0)
                       /\ UNCHANGED <<engine_cache, run_vars>>
                  ELSE IF refused
                  THEN /\ last_op' = Op(handler, session_id, 0, "no_agents", st.calls, 0)
                       /\ UNCHANGED <<engine_cache, run_vars>>
                  ELSE /\ simulation_id <= MaxSimulations
                       /\ engine_cache' = end.cache
                       /\ active_simulations' = end.simulations
                       /\ runs' = runs @@ (simulation_id :> end.run)
                       /\ returned' = returned @@ (simulation_id :> end.outcome)
                       /\ raw_results' = raw_results
                       /\ last_op' =
                              IF end.outcome.raised
                              THEN Op(handler, session_id, 0, "failed",
                                      Append(st.calls, "run_simulation"), 0)
                              ELSE Op(handler, session_id, 0, "completed",
                                      Append(st.calls, "run_simulation"), Len(st.agents))
       /\ UNCHANGED <<active_sessions, session_checkpoints, meta_files, control_ends,
                      transcript_vars>>

\* POST /focus-group
RunFocusGroup(request_type, session_id, specifications, disable_semantic, load_ok, request, failure, rounds_run, output, consolidation_ok, extraction_ok, raw) ==
    SimulateEndpoint("run_focus_group", request_type, session_id, specifications,
                     disable_semantic, load_ok, request, failure, rounds_run, output,
                     consolidation_ok, extraction_ok, raw)

\* POST /individual-interaction
RunIndividualInteraction(request_type, session_id, specifications, disable_semantic, load_ok, request, failure, rounds_run, output, consolidation_ok, extraction_ok, raw) ==
    SimulateEndpoint("run_individual_interaction", request_type, session_id,
                     specifications, disable_semantic, load_ok, request, failure,
                     rounds_run, output, consolidation_ok, extraction_ok, raw)

\* POST /social-simulation
RunSocialSimulation(request_type, session_id, specifications, disable_semantic, load_ok, request, failure, rounds_run, output, consolidation_ok, extraction_ok, raw) ==
    SimulateEndpoint("run_social_simulation", request_type, session_id, specifications,
                     disable_semantic, load_ok, request, failure, rounds_run, output,
                     consolidation_ok, extraction_ok, raw)

\* POST /market-research
RunMarketResearch(request_type, session_id, specifications, disable_semantic, load_ok, request, failure, rounds_run, output, consolidation_ok, extraction_ok, raw) ==
    SimulateEndpoint("run_market_research", request_type, session_id, specifications,
                     disable_semantic, load_ok, request, failure, rounds_run, output,
                     consolidation_ok, extraction_ok, raw)

\* ------------------------------------------------------------ specifications
Begin == \E r \in BeginRequests, ok \in BOOLEAN :
             BeginSession(r.session_name, r.cache_file, ok)

Checkpoint == \E s \in SessionIdInputs, n \in CheckpointNames, ok \in BOOLEAN,
                 w \in WriteOutcomes : CreateCheckpoint(s, n, ok, w)

\* into an existing session: the file checks and the metadata have no effect
RestoreExisting == \E s \in SessionIdInputs, c \in CheckpointIdInputs :
                       RestoreFromCheckpoint(s, c, FALSE, TRUE, TRUE, TRUE)

\* into a new session: request.session_id is not read
RestoreNew == \E c \in CheckpointIdInputs, fe \in BOOLEAN, rd \in BOOLEAN, ok \in BOOLEAN :
                  RestoreFromCheckpoint(0, c, TRUE, fe, rd, ok)

\* into a new session, with a metadata file that can be read back
RestoreNewRead == \E c \in CheckpointIdInputs, fe \in BOOLEAN, ok \in BOOLEAN :
                      RestoreFromCheckpoint(0, c, TRUE, fe, TRUE, ok)

\* create_checkpoint calls of which the first that succeeds is the only one that
\* succeeds: scenarios with at most one checkpoint
CheckpointFirst == \E s \in SessionIdInputs, n \in CheckpointNames, ok \in BOOLEAN,
                      w \in WriteOutcomes :
                       /\ AllCheckpoints = {} \/ LookupSession(s) = NoSession \/ ~ok
                       /\ CreateCheckpoint(s, n, ok, w)

End == \E s \in SessionIdInputs, ok \in BOOLEAN : EndSession(s, ok)

Pause == \E s \in SessionIdInputs : PauseSession(s)

Resume == \E s \in SessionIdInputs : ResumeSession(s)

Register == \/ \E s \in SessionIdInputs, a \in AgentNames : RegisterAgent(s, a)
            \/ \E s \in SessionIdInputs, w \in WorldNames : RegisterWorld(s, w)

Load == \E a \in AgentIdInputs, u \in SuffixInputs, d \in BOOLEAN, ok \in BOOLEAN :
            LoadAgent(a, u, d, ok)

\* the request of the focus groups: one round, no extraction
FocusGroupRequest == [rounds |-> 1, extract_results |-> FALSE, result_type |-> "json"]

\* focus groups whose run returns or meets a failing world.run
Run == \E t \in RequestTypes, u \in RunSessionIds, p \in ParticipantInputs, d \in BOOLEAN,
          ok \in BOOLEAN, f \in {"none", "world.run"} :
           RunFocusGroup(t, u, p, d, ok, FocusGroupRequest, f, 0,
                         <<EngineStream(<<AgentA>>, 1), <<>>>>, TRUE, TRUE, PyNone)

\* the same requests at the other three endpoints
RunIndividual == \E t \in RequestTypes, u \in RunSessionIds, p \in ParticipantInputs,
                    d \in BOOLEAN, ok \in BOOLEAN, f \in {"none", "world.run"} :
                     RunIndividualInteraction(t, u, p, d, ok, FocusGroupRequest, f, 0,
                                              <<EngineStream(<<AgentA>>, 1), <<>>>>,
                                              TRUE, TRUE, PyNone)

RunSocial == \E t \in RequestTypes, u \in RunSessionIds, p \in ParticipantInputs,
                d \in BOOLEAN, ok \in BOOLEAN, f \in {"none", "world.run"} :
                 RunSocialSimulation(t, u, p, d, ok, FocusGroupRequest, f, 0,
                                     <<EngineStream(<<AgentA>>, 1), <<>>>>,
                                     TRUE, TRUE, PyNone)

RunMarket == \E t \in RequestTypes, u \in RunSessionIds, p \in ParticipantInputs,
                d \in BOOLEAN, ok \in BOOLEAN :
                 RunMarketResearch(t, u, p, d, ok, FocusGroupRequest, "none", 0,
                                   <<EngineStream(<<AgentA>>, 1), <<>>>>,
                                   TRUE, TRUE, PyNone)

\* the four endpoints with every request and every outcome of the run
RunAny == \E h \in SimulateHandlers, t \in RequestTypes, u \in RunSessionIds,
             p \in ParticipantInputs, d \in BOOLEAN,
             ok \in BOOLEAN, request \in RunRequests, f \in RunFailures \cup {"none"},
             n \in 0..(MaxRounds - 1), c \in BOOLEAN, e \in BOOLEAN, raw \in RunRawInputs :
              /\ n < request.rounds
              /\ SimulateEndpoint(h, t, u, p, d, ok, request, f, n,
                                  <<EngineStream(<<AgentA>>, request.rounds), <<>>>>,
                                  c, e, raw)

Interact == \E s \in SessionIdInputs, n \in 1..MaxInteractions :
                IncrementInteractionCount(s, n)

Clear == \E u \in SuffixInputs \ {""} : ClearSessionCache(u)

Persona == \E a \in AgentIdInputs, n \in PersonaNames, ok \in BOOLEAN :
               CreatePersonaFromAgent(a, n, ok)

Population == \E k \in BOOLEAN, o \in ScopedOutcomes : BulkGeneratePopulation(k, o)

Intervention == \E f \in BOOLEAN, o \in ScopedOutcomes : ExecuteIntervention(f, o)

Startup == \E ok \in BOOLEAN : StartupEvent(ok)

Shutdown == \E ok \in BOOLEAN : ShutdownEvent(ok)

\* the session lifecycle: sessions with empty registries and at most one
\* checkpoint
NextLifecycle == Begin \/ CheckpointFirst \/ RestoreExisting \/ RestoreNew \/ End \/ Pause
                    \/ Resume

SpecLifecycle == Init /\ [][NextLifecycle]_vars

\* checkpoints and restores of sessions that are never paused or ended
NextRestore == Begin \/ Checkpoint \/ RestoreExisting \/ RestoreNew

SpecRestore == Init /\ [][NextRestore]_vars

\* checkpoints and restores of sessions with registered agents and worlds, on a
\* file system that reads back what was written, with at most one checkpoint
NextSnapshot == Begin \/ Register \/ CheckpointFirst \/ RestoreNewRead

SpecSnapshot == Init /\ [][NextSnapshot]_vars

\* the agent cache under load_agent calls only
NextAgents == Load

SpecAgents == Init /\ [][NextAgents]_vars

\* a session named "sim" with the cache file named after it
BeginNamed == \E ok \in BOOLEAN : BeginSession("sim", "", ok)

\* a checkpoint named "cp" whose metadata file is written
CheckpointWritten == \E s \in SessionIdInputs, ok \in BOOLEAN : CreateCheckpoint(s, "cp", ok, "ok")

\* the operations that look a session up by its id, on sessions of one shape
NextSessionLookup == BeginNamed \/ Interact \/ CheckpointWritten \/ RestoreExisting \/ End

SpecSessionLookup == Init /\ [][NextSessionLookup]_vars

\* the operations that assign to session_checkpoints, on sessions of one shape
NextCheckpointLists == BeginNamed \/ Checkpoint \/ RestoreNewRead \/ End

SpecCheckpointLists == Init /\ [][NextCheckpointLists]_vars

\* simulation runs through the four endpoints of the router
NextRuns == Run \/ RunIndividual \/ RunSocial \/ RunMarket

SpecRuns == Init /\ [][NextRuns]_vars

\* the transcript functions applied to what a run returned
NextTranscript == ParseActions \/ ParseFormatted \/ Convert

SpecTranscript == InitTranscript /\ [][NextTranscript]_vars

\* the statistics of the result extractor
NextExtraction == Statistics \/ Sentiment \/ Themes \/ Engagement \/ Process

SpecExtraction == InitExtraction /\ [][NextExtraction]_vars

\* the structured path on the replay streams
NextReplay == ParseActions \/ Convert

SpecReplay == InitReplay /\ [][NextReplay]_vars

\* world.run on a world of agents that were loaded and have different names: the
\* stream is keyed by the names the agents have, and every agent talks once in
\* every round
Speak(handles, rounds) ==
    /\ actions_over_time = PyNone
    /\ \A k \in 1..Len(handles) : handles[k] \in 1..Len(agent_objects)
    /\ \A j \in 1..Len(handles) : \A k \in 1..Len(handles) :
           j # k => agent_objects[handles[j]].name # agent_objects[handles[k]].name
    /\ actions_over_time' =
           EngineStream([k \in 1..Len(handles) |-> agent_objects[handles[k]].name], rounds)
    /\ UNCHANGED <<session_vars, conversation_content, rendered_blocks, parse_out>>

\* agents loaded with and without a session id, a run of one or two of them,
\* and the structured parse of its stream
Loaded == \E a \in AvailableAgents, u \in SuffixInputs : LoadAgent(a, u, FALSE, TRUE)

Spoken == \E h1 \in 1..MaxHandles, h2 \in 1..MaxHandles, rounds \in 1..MaxRounds :
              \/ Speak(<<h1>>, rounds)
              \/ h1 # h2 /\ Speak(<<h1, h2>>, rounds)

NextNames == Loaded \/ Spoken \/ ParseActions

SpecNames == Init /\ [][NextNames]_vars

\* calls of run_simulation, step by step, and stop_simulation between the steps
Start == \E agents \in RunAgentInputs, request \in RunRequests,
            failure \in BeginFailures \cup {"none"} :
             RunSimulation(agents, request, failure)

Stimulus == \E id \in 1..MaxSimulations, ok \in BOOLEAN : Broadcast(id, ok)

Round == \E id \in 1..MaxSimulations, ok \in BOOLEAN : RunRound(id, ok)

Transcript == \E id \in DOMAIN runs, ok \in BOOLEAN :
                 \E output \in RunOutputs(runs[id].agents, runs[id].rounds) :
                     RenderAndConvert(id, ok, output)

Extraction == \E id \in 1..MaxSimulations, c \in BOOLEAN, e \in BOOLEAN,
                 raw \in RunRawInputs : ExtractAndReturn(id, c, e, raw)

NextRunSimulation == Start \/ Stimulus \/ Round \/ Transcript \/ Extraction

SpecRunSimulation == Init /\ [][NextRunSimulation]_vars

\* calls of run_simulation that meet no engine failure before the extraction,
\* and stop_simulation between their steps
Started == \E agents \in RunAgentInputs, request \in RunRequests :
               RunSimulation(agents, request, "none")

StimulusDelivered == \E id \in 1..MaxSimulations : Broadcast(id, TRUE)

RoundRun == \E id \in 1..MaxSimulations : RunRound(id, TRUE)

Rendered == \E id \in DOMAIN runs :
                RenderAndConvert(id, TRUE,
                                 <<EngineStream(runs[id].agents, runs[id].rounds), <<>>>>)

Stop == \E id \in 1..MaxSimulations : StopSimulation(id)

NextCancellation ==
    Started \/ StimulusDelivered \/ RoundRun \/ Rendered \/ Extraction \/ Stop

SpecCancellation == Init /\ [][NextCancellation]_vars

\* _extract_results on agents of every memory configuration
PersonInputs ==
    {Person(<<"P">>, m, d) : m \in SemanticMemoryStates, d \in DisableFlagStates}

InitMemory ==
    /\ active_sessions = <<>>
    /\ session_checkpoints = <<>>
    /\ meta_files = <<>>
    /\ control_ends = <<>>
    /\ last_op = NoOp
    /\ session_cache = <<>>
    /\ agent_objects \in [1..2 -> PersonInputs]
    /\ load_log = {}
    /\ actions_over_time = PyNone
    /\ conversation_content = <<>>
    /\ rendered_blocks = <<>>
    /\ parse_out = NoOutput
    /\ engine_cache = NoCache
    /\ active_simulations = <<>>
    /\ runs = <<>>
    /\ returned = <<>>
    /\ raw_results \in RunRawInputs

HandleLists == {<<>>, <<1>>, <<2>>, <<1, 2>>, <<2, 1>>}

Extracted == \E agents \in HandleLists, c \in BOOLEAN, e \in BOOLEAN,
                result_type \in ResultTypes : ExtractResultsFrom(agents, c, e, result_type)

NextMemory == Extracted

SpecMemory == InitMemory /\ [][NextMemory]_vars

\* the engine's transaction under every caller of control.begin and control.end
NextEngine == BeginNamed \/ CheckpointWritten \/ RestoreExisting \/ End \/ Population
                 \/ Intervention \/ Startup \/ Shutdown

SpecEngine == Init /\ [][NextEngine]_vars

\* the agent cache under every operation that builds an agent or drops a cached one
NextAgentCache == Load \/ Clear \/ Persona

SpecAgentCache == Init /\ [][NextAgentCache]_vars

\* the whole program
Next == Begin \/ Checkpoint \/ RestoreExisting \/ RestoreNew \/ End \/ Pause \/ Resume
           \/ Register \/ Interact \/ Load \/ Clear \/ Persona \/ RunAny
           \/ Population \/ Intervention \/ Startup \/ Shutdown
           \/ Start \/ Stimulus \/ Round \/ Transcript \/ Extraction \/ Stop
           \/ Spoken \/ ParseActions \/ ParseFormatted \/ Convert
           \/ Statistics \/ Sentiment \/ Themes \/ Engagement \/ Process \/ Extracted

Spec == Init /\ [][Next]_vars

\* ------------------------------------------------------------------ claims
Sessions == DOMAIN active_sessions

StatusOf(s) == active_sessions[s].status

\* C1: under load_agent calls made with non-empty session ids, two calls with the
\* same session id and the same agent key return the identical handle, and a
\* handle returned for one session is never returned for another session id.
C1_CacheIdentityAndIsolation ==
    \A e1 \in load_log : \A e2 \in load_log :
        e1.session_id # "" =>
            /\ (e2.session_id = e1.session_id /\ e2.agent_id = e1.agent_id)
                   => e2.handle = e1.handle
            /\ e2.handle = e1.handle => e2.session_id = e1.session_id

\* C1 witness: a later call of session s1 was served from the cache while session
\* s2 had loaded the same agent key into an object of its own.
C1_Witness ==
    \E e1 \in load_log : \E e2 \in load_log :
        /\ e1.cached /\ e1.session_id = "s1"
        /\ ~e2.cached /\ e2.session_id = "s2" /\ e2.agent_id = e1.agent_id
        /\ e2.handle # e1.handle

\* C2: once end_session(S) has succeeded, every later end_session(S) fails with
\* not-found and makes no control.end() call.
C2_SecondEndIsNotFound ==
    [][(/\ last_op'.op = "end_session"
        /\ last_op'.session_id \in Sessions
        /\ control_ends[last_op'.session_id] >= 1)
          => (last_op'.result = "not_found" /\ last_op'.calls = <<>>)]_vars

\* C3: control.end() is performed at most once for a session, and exactly once
\* whenever the session has a terminal status.
C3_ReleasedExactlyOnce ==
    \A s \in Sessions :
        /\ control_ends[s] <= 1
        /\ StatusOf(s) \in TerminalStatuses => control_ends[s] = 1

\* C4: once a session's status is COMPLETED, FAILED or STOPPED, no operation
\* changes it.
C4_EndingIsTerminal ==
    [][\A s \in Sessions :
          StatusOf(s) \in TerminalStatuses
              => active_sessions'[s].status = active_sessions[s].status]_vars

\* C5: create_checkpoint on a session whose status is not RUNNING or PAUSED is
\* rejected and appends nothing to the session's checkpoint list.
C5_CheckpointOnlyWhileActive ==
    [][(/\ last_op'.op = "create_checkpoint"
        /\ last_op'.session_id \in Sessions
        /\ StatusOf(last_op'.session_id) \notin {RUNNING, PAUSED})
          => (/\ last_op'.result # "ok"
              /\ session_checkpoints'[last_op'.session_id]
                     = session_checkpoints[last_op'.session_id])]_vars

\* C6: a session leaves CREATED only to RUNNING, enters PAUSED only from RUNNING,
\* and enters COMPLETED only from RUNNING or PAUSED.
C6_StatusFollowsStateMachine ==
    [][\A s \in Sessions :
          LET old == active_sessions[s].status
              new == active_sessions'[s].status
          IN old # new =>
                /\ old = CREATED => new = RUNNING
                /\ new = PAUSED => old = RUNNING
                /\ new = COMPLETED => old \in {RUNNING, PAUSED}]_vars

\* C7: a session restored into a new session from a checkpoint has the agent
\* names and the world names of the snapshot stored with the checkpoint.
C7_RestoreMatchesSnapshot ==
    (last_op.op = "restore_new" /\ last_op.result = "ok") =>
        \A cp \in AllCheckpoints :
            (/\ cp.checkpoint_id = last_op.checkpoint_id
             /\ cp.file_path \in DOMAIN meta_files)
            => /\ active_sessions[last_op.out].agents.names
                      = meta_files[cp.file_path].agents_summary
               /\ active_sessions[last_op.out].worlds.names
                      = meta_files[cp.file_path].worlds_summary

\* C8: restoring into a new session adds a session whose id no session had, that
\* records the checkpoint id as restored_from and has an empty checkpoint list,
\* and leaves every existing session and checkpoint list as it was.
C8_RestoreNewIsFresh ==
    [][(last_op'.op = "restore_new" /\ last_op'.result = "ok") =>
          /\ last_op'.out \notin Sessions
          /\ last_op'.out \in DOMAIN active_sessions'
          /\ active_sessions'[last_op'.out].session_id = last_op'.out
          /\ active_sessions'[last_op'.out].restored_from = last_op'.checkpoint_id
          /\ session_checkpoints'[last_op'.out] = <<>>
          /\ \A s \in Sessions :
                /\ active_sessions'[s] = active_sessions[s]
                /\ session_checkpoints'[s] = session_checkpoints[s]]_vars

\* C8 witness: a session was restored into a new session from a checkpoint of a
\* session that is still there with its checkpoint.
C8_Witness ==
    /\ last_op.op = "restore_new" /\ last_op.result = "ok"
    /\ active_sessions[last_op.out].restored_from = last_op.checkpoint_id
    /\ \E s \in Sessions \ {last_op.out} : \E i \in 1..Len(session_checkpoints[s]) :
          session_checkpoints[s][i].checkpoint_id = last_op.checkpoint_id

NoSuchCheckpoint(checkpoint_id) ==
    \A s \in DOMAIN session_checkpoints : \A i \in 1..Len(session_checkpoints[s]) :
        session_checkpoints[s][i].checkpoint_id # checkpoint_id

\* C9: restore_from_checkpoint with a checkpoint id that no checkpoint list holds
\* fails with not-found, makes no engine call and changes no session, in both
\* modes.
C9_RestoreMissingCheckpoint ==
    [][(/\ last_op'.op \in {"restore", "restore_new"}
        /\ NoSuchCheckpoint(last_op'.checkpoint_id))
          => (/\ last_op'.result = "not_found"
              /\ last_op'.calls = <<>>
              /\ UNCHANGED <<active_sessions, session_checkpoints, meta_files,
                             control_ends>>)]_vars

\* C9 witness: a restore into a known session with an unknown checkpoint id was
\* refused while another checkpoint existed.
C9_Witness ==
    /\ last_op.op = "restore" /\ last_op.result = "not_found"
    /\ last_op.session_id \in Sessions
    /\ NoSuchCheckpoint(last_op.checkpoint_id)
    /\ AllCheckpoints # {}

\* C10 as stated: every successful create_checkpoint stores a checkpoint whose
\* status is SAVED.
C10_CheckpointAlwaysSaved ==
    (last_op.op = "create_checkpoint" /\ last_op.result = "ok") =>
        \A cp \in AllCheckpoints :
            cp.checkpoint_id = last_op.out => cp.status = SAVED

\* the .meta file of a checkpoint holds the metadata written for it
MetaWrittenFor(cp) ==
    /\ cp.file_path # NoFile
    /\ cp.file_path \in DOMAIN meta_files
    /\ meta_files[cp.file_path].checkpoint_id = cp.checkpoint_id

\* C10 amended: a successful create_checkpoint stores the checkpoint as the last of
\* the session's list with status SAVED if the session has a cache file and the
\* metadata file was written, and with status CREATED otherwise.
C10_SavedIffMetaWritten ==
    (last_op.op = "create_checkpoint" /\ last_op.result = "ok") =>
        LET list == session_checkpoints[last_op.session_id]
            cp == list[Len(list)]
        IN /\ Len(list) >= 1
           /\ cp.checkpoint_id = last_op.out
           /\ cp.status = IF MetaWrittenFor(cp) THEN SAVED ELSE CREATED

\* C10 witness: a checkpoint of a session with a cache file was stored with status
\* CREATED because its metadata file was not written.
C10_Witness ==
    /\ last_op.op = "create_checkpoint" /\ last_op.result = "ok"
    /\ \E cp \in AllCheckpoints :
          /\ cp.checkpoint_id = last_op.out
          /\ cp.file_path # NoFile
          /\ cp.status = CREATED

\* C11: create_checkpoint, end_session and restore_from_checkpoint into an existing
\* session, called with a session id that no session has, fail with not-found,
\* make no engine call and leave the session records, the checkpoint lists, the
\* metadata files and the engine's releases unchanged.
C11_UnknownSessionRejected ==
    [][(/\ last_op'.op \in {"create_checkpoint", "end_session", "restore"}
        /\ last_op'.session_id \notin Sessions)
          => (/\ last_op'.result = "not_found"
              /\ last_op'.calls = <<>>
              /\ UNCHANGED <<active_sessions, session_checkpoints, meta_files,
                             control_ends>>)]_vars

\* C11 witness: a restore into a session id that no session has was refused
\* although the checkpoint exists and a session has been ended.
C11_Witness ==
    /\ last_op.op = "restore" /\ last_op.result = "not_found"
    /\ last_op.session_id \notin Sessions
    /\ ~NoSuchCheckpoint(last_op.checkpoint_id)
    /\ \E s \in Sessions : control_ends[s] >= 1

\* C12: in every step each session keeps its checkpoint list as a prefix of the
\* new one, and a successful create_checkpoint lengthens the list of its session
\* by one and leaves every other list as it was.
C12_CheckpointListsAppendOnly ==
    [][/\ \A s \in DOMAIN session_checkpoints :
              /\ s \in DOMAIN session_checkpoints'
              /\ Len(session_checkpoints[s]) <= Len(session_checkpoints'[s])
              /\ SubSeq(session_checkpoints'[s], 1, Len(session_checkpoints[s]))
                     = session_checkpoints[s]
       /\ (last_op'.op = "create_checkpoint" /\ last_op'.result = "ok") =>
              /\ Len(session_checkpoints'[last_op'.session_id])
                     = Len(session_checkpoints[last_op'.session_id]) + 1
              /\ \A s \in DOMAIN session_checkpoints \ {last_op'.session_id} :
                     session_checkpoints'[s] = session_checkpoints[s]]_vars

\* C12 witness: a second checkpoint was appended behind the first one in the
\* list of an ended session, while another session kept its empty list.
C12_Witness ==
    /\ last_op.op = "create_checkpoint" /\ last_op.result = "ok"
    /\ Len(session_checkpoints[last_op.session_id]) = 2
    /\ session_checkpoints[last_op.session_id][2].checkpoint_id = last_op.checkpoint_id
    /\ session_checkpoints[last_op.session_id][1].checkpoint_id # last_op.checkpoint_id
    /\ StatusOf(last_op.session_id) = COMPLETED
    /\ \E s \in Sessions \ {last_op.session_id} : session_checkpoints[s] = <<>>

\* C13: once the simulation run of a session has finished (run_simulation has
\* returned or raised), the agent cache holds no handle under that session id.
C13_CachePurgedAfterRun ==
    (last_op.op \in SimulateHandlers /\ last_op.result \in {"completed", "failed"}) =>
        \/ last_op.session_id \notin DOMAIN session_cache
        \/ DOMAIN session_cache[last_op.session_id] = {}

\* the entries of the action stream, and the result of the function applied
Rounds == actions_over_time.items

Result == parse_out.result

\* the entry e is one TALK action whose trimmed content has n characters or more
TalkOfLength(e, n) ==
    /\ e.kind = "dict"
    /\ e.action.kind = "dict"
    /\ e.action.type.kind = "str" /\ e.action.type.chars = TALK
    /\ e.action.content.kind = "str"
    /\ Len(Strip(e.action.content.chars)) >= n

\* the places <<agent, action>> of the round's entry that hold a TALK action of
\* the record's agent with the record's content
Places(round_data, rec) ==
    UNION {{<<k, m>> : m \in {n \in 1..Len(round_data.items[k].value.items) :
                                 /\ TalkOfLength(round_data.items[k].value.items[n], 0)
                                 /\ Strip(round_data.items[k].value.items[n].action.content.chars)
                                        = rec.content}} :
           k \in {j \in 1..Len(round_data.items) :
                     /\ CleanAgentName(round_data.items[j].key) = rec.agent
                     /\ round_data.items[j].value.kind = "list"}}

Before(p, q) == p[1] < q[1] \/ (p[1] = q[1] /\ p[2] < q[2])

\* C14: the records that _parse_actions_chronologically returns for a stream of R
\* entries have round numbers in 1..R that never decrease, and within one round
\* they come from the round's entry in the engine's agent order and in each
\* agent's own action order.
C14_StructuredOrdering ==
    (parse_out.fn = "structured" /\ ~parse_out.raised) =>
        /\ \A i \in 1..Len(Result) :
              /\ Result[i].round \in 1..Len(Rounds)
              /\ Rounds[Result[i].round].kind = "dict"
              /\ Places(Rounds[Result[i].round], Result[i]) # {}
        /\ \A i \in 1..Len(Result) : \A j \in 1..Len(Result) :
              i < j =>
                 /\ Result[i].round <= Result[j].round
                 /\ Result[i].round = Result[j].round =>
                       \A p \in Places(Rounds[Result[i].round], Result[i]) :
                       \A q \in Places(Rounds[Result[j].round], Result[j]) : Before(p, q)

\* C14 witness: a stream of two rounds gave records of both rounds, two of them
\* from the same agent in one round and one from the other agent after them.
C14_Witness ==
    /\ parse_out.fn = "structured" /\ ~parse_out.raised
    /\ Len(Result) >= 4
    /\ Result[1].round = 1 /\ Result[Len(Result)].round = 2
    /\ Result[1].agent = Result[2].agent /\ Result[1].content # Result[2].content
    /\ Result[3].round = 1 /\ Result[3].agent # Result[1].agent

\* C15: every record returned by the structured or the fallback path, or by the
\* conversion, has a content whose trimmed length is above 10.
C15_ContentAboveThreshold ==
    \A i \in 1..Len(Result) : Len(Strip(Result[i].content)) > MinContentLength

\* C15 witness: the fallback path dropped the first block of a transcript and
\* kept the second, and the content it kept is not longer than needed.
C15_Witness ==
    /\ parse_out.fn = "fallback"
    /\ Len(Result) = 1
    /\ Result[1].round = 2
    /\ Len(Result[1].content) = MinContentLength + 1

\* the scenario: two rounds, the agents A and B, each with exactly one TALK action
\* per round whose trimmed content has n characters or more
Scenario(n) ==
    /\ actions_over_time.kind = "list"
    /\ Len(Rounds) = 2
    /\ \A r \in 1..2 :
          /\ Rounds[r].kind = "dict"
          /\ Len(Rounds[r].items) = 2
          /\ Rounds[r].items[1].key = AgentA /\ Rounds[r].items[2].key = AgentB
          /\ \A k \in 1..2 :
                /\ Rounds[r].items[k].value.kind = "list"
                /\ Len(Rounds[r].items[k].value.items) = 1
                /\ TalkOfLength(Rounds[r].items[k].value.items[1], n)

\* C16 as stated: in the scenario with contents of at least 10 characters the
\* transcript has exactly 4 records.
C16_FourRecordsFromTen ==
    (parse_out.fn = "structured" /\ Scenario(MinContentLength)) => Len(Result) = 4

\* C16 amended: in the scenario with contents of more than 10 characters the
\* structured path returns exactly 4 records, the two of round 1 and then the two
\* of round 2, A before B.
C16_FourRecordsAboveTen ==
    (parse_out.fn = "structured" /\ Scenario(MinContentLength + 1)) =>
        /\ ~parse_out.raised
        /\ Len(Result) = 4
        /\ \A i \in 1..4 :
              /\ Result[i].round = (i + 1) \div 2
              /\ Result[i].agent = IF i % 2 = 1 THEN <<"A">> ELSE AgentB

\* C16 witness: the scenario with contents of 11 characters gave 4 records.
C16_Witness ==
    /\ parse_out.fn = "structured"
    /\ Scenario(MinContentLength + 1)
    /\ Len(Result) = 4
    /\ \A i \in 1..4 : Len(Result[i].content) = MinContentLength + 1

\* C17: when the stream yields a record, the conversion returns the records of
\* the structured path and does not parse the transcript; it parses the
\* transcript only when there is no stream or the stream yields no record.
C17_FallbackOnlyWithoutRecords ==
    (parse_out.fn = "convert" /\ ~parse_out.raised) =>
        LET structured == IF Truthy(actions_over_time)
                          THEN ParseActionsChronologically(actions_over_time).records
                          ELSE <<>>
        IN /\ structured # <<>> =>
                 (Result = structured /\ parse_out.calls = <<"structured">>)
           /\ SeqContains(parse_out.calls, "fallback") => structured = <<>>

\* C17 witness: a conversion returned the record of the stream although a
\* transcript of two blocks was there.
C17_Witness ==
    /\ parse_out.fn = "convert"
    /\ parse_out.calls = <<"structured">>
    /\ Len(Result) = 1
    /\ Len(rendered_blocks) = 2
    /\ ParseTinytroupeFormattedOutput(conversation_content) # <<>>

\* C18: every record carries a source tag, structured when it comes from the
\* action stream and parsed-fallback when it comes from the rendered transcript.
C18_RecordsCarrySource ==
    \A i \in 1..Len(Result) :
        /\ "source" \in DOMAIN Result[i]
        /\ Result[i].source =
               IF SeqContains(parse_out.calls, "fallback") THEN "parsed-fallback"
               ELSE "structured"

\* C19: _parse_actions_chronologically never raises, whatever malformed entries
\* the stream holds.
C19_MalformedNeverFatal ==
    parse_out.fn = "structured" => ~parse_out.raised

\* the continuation lines of a block joined into one utterance
Utterance(block) == Strip(JoinLines(block.texts))

\* C20: a transcript of two agent blocks, each with a header and two continuation
\* lines that make an utterance above the threshold, is parsed into two records,
\* in block order, with the names and the utterances of the blocks.
C20_FallbackRoundTrip ==
    (/\ parse_out.fn = "fallback"
     /\ Len(rendered_blocks) = 2
     /\ \A k \in 1..2 : Len(Utterance(rendered_blocks[k])) > MinContentLength) =>
        /\ Len(Result) = 2
        /\ \A k \in 1..2 :
              /\ Result[k].agent = rendered_blocks[k].name
              /\ Result[k].content = Utterance(rendered_blocks[k])
\* the places <<round, agent, action>> of the stream that hold a TALK action whose
\* trimmed content is above the threshold
TalkPlaces ==
    UNION {UNION {{<<r, k, m>> :
                      m \in {n \in 1..Len(Rounds[r].items[k].value.items) :
                                TalkOfLength(Rounds[r].items[k].value.items[n],
                                             MinContentLength + 1)}} :
                  k \in {j \in 1..Len(Rounds[r].items) :
                            Rounds[r].items[j].value.kind = "list"}} :
           r \in {q \in 1..Len(Rounds) : Rounds[q].kind = "dict"}}

\* the record is the one of the TALK action at place p
RecordOf(rec, p) ==
    /\ rec.round = p[1]
    /\ rec.agent = CleanAgentName(Rounds[p[1]].items[p[2]].key)
    /\ rec.content = Strip(Rounds[p[1]].items[p[2]].value.items[p[3]].action.content.chars)

\* the agent keys of the stream
AgentKeys == {Rounds[r].items[k].key : r \in 1..Len(Rounds), k \in 1..2}

\* C21: when the structured path returns, it returns one record for each TALK
\* action whose trimmed content is above the threshold and no other record:
\* an utterance repeated by the agent gives a record each time, and an agent
\* with no such action (only THINK actions, or none) is in no record.
C21_FaithfulReplay ==
    (/\ parse_out.fn \in {"structured", "convert"}
     /\ parse_out.calls = <<"structured">>
     /\ ~parse_out.raised) =>
        /\ Len(Result) = Cardinality(TalkPlaces)
        /\ \A i \in 1..Len(Result) : \E p \in TalkPlaces : RecordOf(Result[i], p)
        /\ \A p \in TalkPlaces : \E i \in 1..Len(Result) : RecordOf(Result[i], p)
        /\ \A a \in AgentKeys :
              (\A p \in TalkPlaces : Rounds[p[1]].items[p[2]].key # a) =>
                  \A i \in 1..Len(Result) : Result[i].agent # CleanAgentName(a)

\* C21 witness: in round 1 agent A said the same thing twice and agent B only
\* thought; the conversion returned A's two equal records and none for B.
C21_Witness ==
    /\ parse_out.fn = "convert" /\ ~parse_out.raised
    /\ Len(Rounds) = MaxRounds
    /\ Rounds[1].items[1].value = PyList(<<TalkX, TalkX>>)
    /\ \A r \in 1..Len(Rounds) : Rounds[r].items[2].value = PyList(<<ThinkAction>>)
    /\ Len(Result) >= 2
    /\ Result[1] = Result[2]
    /\ \A i \in 1..Len(Result) : Result[i].agent = <<"A">>
\* C26: an operation on one session id (begin, checkpoint, restore, end) leaves
\* every other session as it was: its record and its checkpoint list, and when
\* a session is ended, the cache transaction the engine holds for another
\* session is still held afterwards.
C26_SessionIndependence ==
    [][\A s \in DOMAIN active_sessions \ {last_op'.session_id} :
          /\ active_sessions'[s] = active_sessions[s]
          /\ session_checkpoints'[s] = session_checkpoints[s]
          /\ (last_op'.op = "end_session" /\ engine_cache = SessionCache(s)) =>
                 engine_cache' = SessionCache(s)]_vars
\* the engine's output has no participant: it is not a dict, has no participant
\* list, or the list is empty
NoUtterances ==
    ~HasParticipantList(raw_results) \/ raw_results.participants.items = <<>>

\* C27: on an engine output without participants or responses, every number of
\* the computed statistics (participants, responses, average length, response
\* rate, completion rate) is 0, and every theme frequency is 0.
C27_ZeroUtterancesAllZero ==
    /\ (parse_out.fn = "calculate_statistics" /\ NoUtterances) =>
           /\ parse_out.result.total_participants = 0
           /\ parse_out.result.total_responses = 0
           /\ parse_out.result.average_response_length.num = 0
           /\ parse_out.result.response_rate.num = 0
           /\ parse_out.result.completion_rate.num = 0
    /\ (parse_out.fn = "extract_themes" /\ NoUtterances) =>
           \A theme \in DOMAIN parse_out.result : parse_out.result[theme].frequency = 0

\* the participant that _calculate_engagement_score was applied to
Scored == raw_results.participants.items[parse_out.result.participant]

\* C30: the engagement score of a participant is at least 0 and at most 1
\* whatever the number and the lengths of the responses, and it is 0 for a
\* participant without responses.
C30_EngagementClipped ==
    parse_out.fn = "calculate_engagement_score" =>
        /\ parse_out.result.score.den > 0
        /\ 0 <= parse_out.result.score.num
        /\ parse_out.result.score.num <= parse_out.result.score.den
        /\ (Scored.responses.kind = "missing"
              \/ (Scored.responses.kind = "list" /\ Scored.responses.items = <<>>)) =>
               parse_out.result.score.num = 0

\* C30 witness: a participant with MaxResponses long responses, whose count part
\* alone is 1.0: the score returned is exactly 1.
C30_Witness ==
    /\ parse_out.fn = "calculate_engagement_score"
    /\ Scored.responses.kind = "list"
    /\ Len(Scored.responses.items) = MaxResponses
    /\ \A i \in 1..MaxResponses : Scored.responses.items[i] = Response("str", 120)
    /\ parse_out.result.score.num = parse_out.result.score.den

\* C28: when loading one of the requested agents fails, the endpoint ends with an
\* error right after that load: run_simulation is never called, so the engine's
\* transaction, the table of simulations and the runs are as they were (no
\* stimulus is broadcast, no round runs with the agents that did load).
C28_AllOrNothingInitialization ==
    [][(/\ last_op'.op \in SimulateHandlers
        /\ SeqContains(last_op'.calls, "load_agent raises"))
          => (/\ last_op'.result = "load_error"
              /\ ~SeqContains(last_op'.calls, "run_simulation")
              /\ last_op'.calls[Len(last_op'.calls)] = "load_agent raises"
              /\ UNCHANGED <<engine_cache, run_vars>>)]_vars

\* one agent of the request was loaded, the load of the next one raised
C28_Witness ==
    /\ last_op.op = "run_focus_group"
    /\ last_op.calls = <<"load_agent", "load_agent raises">>
    /\ last_op.result = "load_error"
    /\ DOMAIN session_cache[last_op.session_id] # {}
    /\ \E id \in DOMAIN active_simulations : active_simulations[id].status = COMPLETED


\* the calls of extract_results_from_agent that a run made
ExtractionCalls(run) ==
    SelectSeq(run.extraction, LAMBDA c : c.fn = "extract_results_from_agent")

\* the consolidation of the run raised
ConsolidationFailed(run) ==
    \E i \in 1..Len(run.extraction) :
        run.extraction[i].fn = "listen_and_act" /\ run.extraction[i].raised

\* C22: when the rapporteur's consolidation (listen_and_act) raises, the
\* structured extraction is still made exactly once, on the first agent, the call
\* does not raise, and what it returns is the processed output of that
\* extraction, which is no error result unless the extraction or the processing
\* of its output failed.
C22_ConsolidationFailureTolerated ==
    \A id \in DOMAIN runs :
        ConsolidationFailed(runs[id]) =>
            /\ Len(ExtractionCalls(runs[id])) = 1
            /\ ExtractionCalls(runs[id])[1].agent = Head(runs[id].agents)
            /\ id \in DOMAIN returned
            /\ ~returned[id].raised
            /\ ~ExtractionCalls(runs[id])[1].raised =>
                   /\ returned[id].extracted_results =
                          ProcessExtractionResults(runs[id].raw, runs[id].result_type)
                   /\ runs[id].result_type # "dataframe" =>
                          returned[id].extracted_results.kind = "processed"

\* the consolidation raised, the extraction on the first of two agents returned
C22_Witness ==
    \E id \in DOMAIN returned :
        /\ ConsolidationFailed(runs[id])
        /\ Len(runs[id].agents) = 2
        /\ ~ExtractionCalls(runs[id])[1].raised
        /\ ~returned[id].raised
        /\ returned[id].extracted_results.kind = "processed"
        /\ returned[id].extracted_results.statistical_analysis.total_responses = 1

\* the extraction of a finished run failed: there was no agent, the extractor
\* raised, or the processing of its output returned an error
ExtractionFailed(run) ==
    /\ run.extract_results
    /\ \/ run.agents = <<>>
       \/ /\ ExtractionCalls(run) # <<>>
          /\ \/ ExtractionCalls(run)[1].raised
             \/ ProcessExtractionResults(run.raw, run.result_type).kind = "error"

\* C23: no call of run_simulation raises because of the extraction; when the
\* extraction of a call failed (no agent, the extractor raised, the processing
\* failed), the call returns status completed, an 'error' entry in the extracted
\* results, and the interaction records it had reconstructed.
C23_FailedExtractionKeepsTranscript ==
    \A id \in DOMAIN returned :
        /\ returned[id].raised =>
               \/ returned[id].error.type # "Exception"
               \/ returned[id].error.original # "_extract_results"
        /\ (~returned[id].raised /\ ExtractionFailed(runs[id])) =>
               /\ returned[id].status = COMPLETED
               /\ active_simulations[id].status = COMPLETED
               /\ returned[id].extracted_results.kind = "error"
               /\ returned[id].interactions = runs[id].interactions

\* the extractor raised in a run of two agents and MaxRounds rounds; the response
\* carries the error and one record for each agent in each round
C23_Witness ==
    \E id \in DOMAIN returned :
        /\ ~returned[id].raised
        /\ ExtractionCalls(runs[id]) # <<>>
        /\ ExtractionCalls(runs[id])[1].raised
        /\ returned[id].extracted_results = ErrorResult("Failed to extract results")
        /\ Len(returned[id].interactions) = 2 * MaxRounds

\* C24: a call of run_simulation that ends with an engine failure leaves the
\* record of its simulation with status failed, raises an error that carries the
\* original failure, and changes the record of no other simulation.
C24_FailureMarksRunFailed ==
    [][\A id \in DOMAIN returned' \ DOMAIN returned :
          returned'[id].raised =>
              /\ id \in DOMAIN active_simulations'
              /\ active_simulations'[id].status = FAILED
              /\ returned'[id].error.type = "Exception"
              /\ returned'[id].error.original \in
                     BeginFailures \cup {"world.broadcast", "world.run",
                                         "world.pretty_current_interactions",
                                         "_convert_actions_to_interactions"}
              /\ \A other \in DOMAIN active_simulations \ {id} :
                     active_simulations'[other] = active_simulations[other]]_vars

\* how often a call of the engine's control module appears among the calls of a run
ControlCalls(run, fn) == Len(SelectSeq(run.control, LAMBDA c : c = fn))

\* C25: a call of run_simulation that has ended (returned or raised) has closed
\* the cache transaction it opened: as many control.end() as control.begin().
C25_RunClosesCacheTransaction ==
    \A id \in DOMAIN returned :
        ControlCalls(runs[id], "begin") = ControlCalls(runs[id], "end")

\* C29: a call of run_simulation whose simulation was stopped while the call was
\* in flight still runs all the rounds of the request and returns the records
\* of all of them.
C29_StopDoesNotInterrupt ==
    \A id \in DOMAIN runs :
        (runs[id].stopped /\ runs[id].pc = "done") =>
            /\ runs[id].rounds_run = runs[id].rounds
            /\ id \in DOMAIN returned
            /\ ~returned[id].raised
            /\ returned[id].interactions =
                   ConvertActionsToInteractions(
                       EngineStream(runs[id].agents, runs[id].rounds), <<>>).result

\* a simulation of two agents stopped before its last round: the call returned
\* the records of MaxRounds rounds
C29_Witness ==
    \E id \in DOMAIN returned :
        /\ runs[id].stopped
        /\ runs[id].rounds_run = MaxRounds
        /\ MaxRounds > 1
        /\ Len(returned[id].interactions) = 2 * MaxRounds
        /\ returned[id].interactions[2 * MaxRounds].round = MaxRounds

\* C39: the response rate of the statistics is a percentage: it is at least 0
\* and at most 100 for every engine output.
C39_ResponseRateIsPercentage ==
    parse_out.fn = "calculate_statistics" =>
        /\ parse_out.result.response_rate.den > 0
        /\ 0 <= parse_out.result.response_rate.num
        /\ parse_out.result.response_rate.num <= 100 * parse_out.result.response_rate.den

\* C36: the status of a simulation record that is stopped, completed or failed
\* is never changed by a later step.
C36_FinalStatusStable ==
    [][\A id \in DOMAIN active_simulations :
          active_simulations[id].status \in TerminalStatuses =>
              active_simulations'[id].status = active_simulations[id].status]_vars

\* the load_agent calls made with a session id
SessionLoads == {e \in load_log : e.session_id # ""}

\* C31: an agent loaded for a session has the name of its specification, an
\* underscore and the session id, once, also when the call was served from the
\* cache; and every record that the structured path makes from the stream of
\* such an agent carries the name of the specification.
C31_SuffixRoundTrip ==
    /\ \A e \in SessionLoads :
           agent_objects[e.handle].name =
               PersonName(e.agent_id) \o <<"_">> \o SuffixText(e.session_id)
    /\ (parse_out.fn = "structured" /\ ~parse_out.raised) =>
           /\ Len(Result) = Len(Rounds) * Len(Rounds[1].items)
           /\ \A r \in 1..Len(Rounds) : \A k \in 1..Len(Rounds[r].items) :
                  \A e \in SessionLoads :
                      Rounds[r].items[k].key = agent_objects[e.handle].name =>
                          Result[(r - 1) * Len(Rounds[r].items) + k].agent =
                              PersonName(e.agent_id)

\* the agent whose own name ends like a suffix was loaded for a session, served
\* again from the cache, and talked in MaxRounds rounds after another agent
C31_Witness ==
    /\ parse_out.fn = "structured"
    /\ Len(Result) = 2 * MaxRounds
    /\ \E e \in SessionLoads :
           /\ e.cached
           /\ e.agent_id = "lisa"
           /\ Rounds[MaxRounds].items[2].key = agent_objects[e.handle].name
           /\ Result[2 * MaxRounds].agent = PersonName("lisa")

\* the load_agent calls made without a session id
PlainLoads == {e \in load_log : e.session_id = ""}

\* C37: load_agent without a session id does not use the session cache: no cache
\* entry is made for it and the cache is as it was after the call, every such
\* call returns an object that was built in that call and that no other call
\* returned, and the name of the object is the name of the specification,
\* without a suffix.
C37_NoSessionBypassesCache ==
    /\ []("" \notin DOMAIN session_cache)
    /\ [](\A e \in PlainLoads :
              /\ ~e.cached
              /\ agent_objects[e.handle].name = PersonName(e.agent_id)
              /\ agent_objects[e.handle].original_id = ""
              /\ \A s \in DOMAIN session_cache : \A a \in DOMAIN session_cache[s] :
                     session_cache[s][a] # e.handle
              /\ \A other \in load_log \ {e} : other.handle # e.handle)
    /\ [][\A e \in PlainLoads' \ PlainLoads :
              /\ e.handle = Len(agent_objects) + 1
              /\ Len(agent_objects') = Len(agent_objects) + 1
              /\ session_cache' = session_cache]_vars

\* two calls without a session id for the same agent returned two objects, while
\* a session holds the same agent in its cache
C37_Witness ==
    \E e1 \in PlainLoads : \E e2 \in PlainLoads :
        /\ e1.agent_id = e2.agent_id
        /\ e1.handle # e2.handle
        /\ \E s \in DOMAIN session_cache : e1.agent_id \in DOMAIN session_cache[s]

\* C34: the agent registry of every session is a mapping keyed by name, and
\* register_agent on a known session succeeds and leaves the agent's name in the
\* registry of that session.
C34_AgentRegistryIsMapping ==
    /\ \A s \in Sessions : active_sessions[s].agents.type = "dict"
    /\ (last_op.op = "register_agent" /\ last_op.session_id \in Sessions) =>
           /\ last_op.result = "ok"
           /\ \E name \in AgentNames :
                  SeqContains(active_sessions[last_op.session_id].agents.names, name)

\* C35: restore_from_checkpoint into an existing session succeeds only with a
\* checkpoint taken from that session; with a checkpoint of another session the
\* call is rejected and the sessions are left as they were.
C35_RestoreOwnCheckpointOnly ==
    [][(last_op'.op = "restore" /\ FindCheckpoint(last_op'.checkpoint_id) # NoCheckpoint
           /\ FindCheckpoint(last_op'.checkpoint_id).session_id # last_op'.session_id) =>
          /\ last_op'.result # "ok"
          /\ active_sessions' = active_sessions]_vars

\* C38: _extract_results leaves the rapporteur's memory configuration as it
\* found it: whether the consolidation returns or raises and whether the
\* extraction returns or raises, the rapporteur's semantic_memory and its
\* _disable_semantic_memory flag are after the call what they were before it.
C38_RapporteurMemoryRestored ==
    [][(parse_out'.fn = "extract_results" /\ parse_out'.rapporteur # 0) =>
          LET before == agent_objects[parse_out'.rapporteur]
              after == agent_objects'[parse_out'.rapporteur]
          IN /\ after.semantic_memory = before.semantic_memory
             /\ after.disable_semantic_memory = before.disable_semantic_memory]_vars

\* a call whose consolidation raised, made on a rapporteur with a semantic memory
\* and a clear flag: the consolidation saw neither, the extraction failed too
C38_Witness ==
    /\ parse_out.fn = "extract_results"
    /\ parse_out.rapporteur # 0
    /\ parse_out.calls[1].raised
    /\ parse_out.calls[2].raised
    /\ parse_out.seen[1].semantic_memory = "none"
    /\ parse_out.seen[1].disable_semantic_memory = "True"
    /\ agent_objects[parse_out.rapporteur].semantic_memory = "loaded"
    /\ agent_objects[parse_out.rapporteur].disable_semantic_memory = "False"

\* C32: in the fallback parse of a transcript of agent blocks, the utterance of
\* every record consists of the continuation lines of one block only: no header
\* line and no line of a later block is part of an earlier block's utterance,
\* also when a continuation line is empty after its marker.
C32_UtteranceOfOneBlock ==
    (parse_out.fn = "fallback" /\ rendered_blocks # <<>>) =>
        \A k \in 1..Len(Result) :
            \E b \in 1..Len(rendered_blocks) :
                Result[k].content = Utterance(rendered_blocks[b])

\* every name is made of letters and every continuation line has text
PlainBlocks ==
    \A b \in 1..Len(rendered_blocks) :
        /\ \A c \in 1..Len(rendered_blocks[b].name) : rendered_blocks[b].name[c] \in Letters
        /\ \A t \in 1..Len(rendered_blocks[b].texts) : rendered_blocks[b].texts[t] # <<>>

\* C33: the index that the fallback parse assigns as the round of its records is
\* at least 1 and strictly increasing in output order; in a transcript of plain
\* blocks the record with index r is the one of the r-th block.
C33_SequenceIndexIncreasing ==
    parse_out.fn = "fallback" =>
        /\ \A k \in 1..Len(Result) : Result[k].round >= 1
        /\ \A k \in 1..Len(Result), l \in 1..Len(Result) :
               k < l => Result[k].round < Result[l].round
        /\ (rendered_blocks # <<>> /\ PlainBlocks) =>
               \A k \in 1..Len(Result) :
                   /\ Result[k].round <= Len(rendered_blocks)
                   /\ Result[k].agent = rendered_blocks[Result[k].round].name

\* two blocks gave two records, numbered 1 and 2
C33_Witness ==
    /\ parse_out.fn = "fallback"
    /\ Len(rendered_blocks) = 2
    /\ Len(Result) = 2
    /\ Result[1].round = 1
    /\ Result[2].round = 2
    /\ Result[1].agent # Result[2].agent

====
